---- MODULE Spec2Model ----
(***************************************************************************)
(* On-demand retrieval (ODR) utilities of the fast chain light client      *)
(* (package fast: GetHeaderByNumber ... GetTransaction) over the local     *)
(* key-value store, the remote channel (OdrBackend.FastRetrieve) and the   *)
(* bloom-trie indexer.                                                     *)
(*                                                                         *)
(* Every retrieval function is an operator from the local store, its       *)
(* arguments and the answers the remote channel gives to a result record   *)
(*   [panic, ret, err, db, reqs]                                           *)
(* where db is the store the call leaves behind and reqs the requests it   *)
(* submitted, in order.  The actions draw the arguments and the remote     *)
(* answers from bounded sets and record the finished call in `call`.       *)
(***************************************************************************)
EXTENDS Integers, Sequences, FiniteSets, TLC

VARIABLES db, indexer, call, lastWrite, callers, scenario, mdb, batch, lock, writer, it

\* db, indexer: the local store and the bloom-trie indexer of the ODR backend;
\* call, lastWrite: the finished call and the last receipt write;
\* callers, scenario: concurrent callers of GetBlockReceipts, step by step;
\* mdb, batch: a MemoryDatabase and a memoryBatch on it;
\* lock, writer: the lock of the MemoryDatabase and the memoryBatch.Write in
\* progress under it; it: a memoryIterator.
concVars == <<callers, scenario>>
memVars == <<mdb, batch, lock, writer, it>>
vars == <<db, indexer, call, lastWrite, concVars, memVars>>

\* No concurrent callers, no memory database: the parts of the state the
\* retrieval functions called one at a time do not use.
NoConcurrency == callers = <<>> /\ scenario = <<>>
NoMemoryDb == mdb = <<>> /\ batch = <<>> /\ lock = <<>> /\ writer = <<>> /\ it = <<>>

(***************************************************************************)
(* Bounds                                                                  *)
(***************************************************************************)
NumHash == 2
MaxNumber == 1
NumTx == 2
MaxSections == 2
MaxList == 2

(***************************************************************************)
(* Value domains                                                           *)
(***************************************************************************)
\* common.Hash{}: the zero hash, which stands for "no hash recorded"
ZeroHash == 0
Hashes == 0..NumHash
NzHashes == 1..NumHash
Numbers == 0..MaxNumber
Txs == 1..NumTx
Keys == NzHashes \X Numbers

NoErr == "nil"
ErrNoHeader == "ErrNoHeader"
ErrNoTrustedBloomTrie == "ErrNoTrustedBloomTrie"
ErrDecode == "ErrDecode"
ErrDerive == "ErrDerive"
\* Any error odr.FastRetrieve returns (transport failure, cancelled context).
ErrRemote == "ErrRemote"
RemoteErrs == {ErrRemote}

\* A transaction is identified by its content; Hash() of a transaction.
TxHash(tx) == tx

\* A header is <<hash of its content, number>>; the nil header is <<>>.
NilHeader == <<>>
HeaderHash(header) == header[1]
HeaderNumber(header) == header[2]

\* Raw (RLP) body payloads: absent, bytes that do not decode, or the
\* encoding of a body with the given transactions.
NilRaw == [kind |-> "nil", txs |-> <<>>]
BadRaw == [kind |-> "bad", txs |-> <<>>]
EncodeBody(txs) == [kind |-> "body", txs |-> txs]
\* The transaction lists of bodies: no transaction occurs twice in a block.
TxLists ==
  {l \in UNION {[1..k -> Txs] : k \in 0..NumTx} :
     \A a, b \in DOMAIN l : l[a] = l[b] => a = b}
RawValues == {BadRaw} \cup {EncodeBody(txs) : txs \in TxLists}

\* rlp.Decode of a raw payload into a body
DecodeBody(data) ==
  IF data.kind = "body"
  THEN [err |-> NoErr, txs |-> data.txs]
  ELSE [err |-> ErrDecode, txs |-> <<>>]

\* A receipt carries the derived transaction-hash linkage (ZeroHash while it
\* is not derived) and its logs; a receipt list may be nil (absent).
Receipt(txHash, logs) == [TxHash |-> txHash, Logs |-> logs]
NilReceipts == [present |-> FALSE, list |-> <<>>]
SomeReceipts(list) == [present |-> TRUE, list |-> list]

\* Receipt sets as stored or as sent by the remote: each receipt is not yet
\* derived or carries a linkage already, and the receipts of a block have
\* different logs.
LogValues == {"a", "b"}
RawReceipts == {Receipt(h, l) : h \in {ZeroHash, TxHash(1)}, l \in LogValues}
ReceiptLists ==
  {<<>>} \cup {<<r>> : r \in RawReceipts}
    \cup {p \in RawReceipts \X RawReceipts : p[1].Logs # p[2].Logs}

(***************************************************************************)
(* Local store (rawdb accessors)                                           *)
(***************************************************************************)
ReadCanonicalHash(d, number) ==
  IF number \in DOMAIN d.canonical THEN d.canonical[number] ELSE ZeroHash

ReadHeader(d, hash, number) ==
  IF <<hash, number>> \in d.headers THEN <<hash, number>> ELSE NilHeader

ReadBodyRLP(d, hash, number) ==
  IF <<hash, number>> \in DOMAIN d.bodies THEN d.bodies[<<hash, number>>] ELSE NilRaw

\* Compressed bloom bit-vectors; a result slot not filled yet is NilBits.
NilBits == [src |-> "nil"]
LocalBits(bit, section, head) ==
  [src |-> "local", bit |-> bit, section |-> section, head |-> head]

\* rawdb.ReadBloomBits: the vector stored under (bit, section, head), or an
\* error
ReadBloomBits(d, bit, section, head) ==
  IF <<bit, section, head>> \in d.bloomBits
  THEN [err |-> NoErr, bits |-> LocalBits(bit, section, head)]
  ELSE [err |-> "ErrNotFound", bits |-> NilBits]

\* The root of the bloom trie stored for (section count - 1, section head)
GetBloomTrieRoot(d, num, sectionHead) == <<"BloomTrieRoot", num, sectionHead>>

ReadRawReceipts(d, hash, number) ==
  IF <<hash, number>> \in DOMAIN d.receipts
  THEN d.receipts[<<hash, number>>]
  ELSE NilReceipts

WriteReceipts(d, hash, number, receipts) ==
  [d EXCEPT !.receipts =
     [k \in (DOMAIN d.receipts) \cup {<<hash, number>>} |->
        IF k = <<hash, number>> THEN SomeReceipts(receipts) ELSE d.receipts[k]]]

(***************************************************************************)
(* Remote channel: the answers odr.FastRetrieve can give                   *)
(***************************************************************************)
BlockRequest(hash, number) == [kind |-> "BlockRequest", Hash |-> hash, Number |-> number]

ReceiptsRequest(hash, number, header, untrusted) ==
  [kind |-> "ReceiptsRequest", Hash |-> hash, Number |-> number, Header |-> header,
   Untrusted |-> untrusted]

ReceiptsAnswers ==
  {[err |-> e, Receipts |-> NilReceipts] : e \in RemoteErrs}
    \cup {[err |-> NoErr, Receipts |-> NilReceipts]}
    \cup {[err |-> NoErr, Receipts |-> SomeReceipts(l)] : l \in ReceiptLists}

BlockAnswers ==
  {[err |-> e, Rlp |-> NilRaw] : e \in RemoteErrs}
    \cup {[err |-> NoErr, Rlp |-> r] : r \in RawValues}

(***************************************************************************)
(* Header and canonical hash                                               *)
(***************************************************************************)
\* Mutant: a recorded canonical hash without its header is a silent miss.
GetHeaderByNumber_SilentMiss(d, number) ==
  LET hash == ReadCanonicalHash(d, number) IN
  [panic |-> FALSE,
   ret |-> IF hash # ZeroHash THEN ReadHeader(d, hash, number) ELSE NilHeader,
   err |-> NoErr, db |-> d, reqs |-> <<>>]

GetHeaderByNumber(d, number) ==
  LET hash == ReadCanonicalHash(d, number) IN
  IF hash # ZeroHash
  THEN LET header == ReadHeader(d, hash, number) IN
       IF header = NilHeader
       THEN [panic |-> TRUE, ret |-> NilHeader, err |-> NoErr, db |-> d, reqs |-> <<>>]
       ELSE [panic |-> FALSE, ret |-> header, err |-> NoErr, db |-> d, reqs |-> <<>>]
  ELSE [panic |-> FALSE, ret |-> NilHeader, err |-> NoErr, db |-> d, reqs |-> <<>>]

\* Mutant: a height without a canonical hash is reported as an error.
GetCanonicalHash_MissIsError(d, number) ==
  LET hash == ReadCanonicalHash(d, number) IN
  IF hash # ZeroHash
  THEN [panic |-> FALSE, ret |-> hash, err |-> NoErr, db |-> d, reqs |-> <<>>]
  ELSE [panic |-> FALSE, ret |-> ZeroHash, err |-> ErrNoHeader, db |-> d, reqs |-> <<>>]

GetCanonicalHash(d, number) ==
  LET hash == ReadCanonicalHash(d, number) IN
  IF hash # ZeroHash
  THEN [panic |-> FALSE, ret |-> hash, err |-> NoErr, db |-> d, reqs |-> <<>>]
  ELSE LET h == GetHeaderByNumber(d, number) IN
       IF h.panic
       THEN [panic |-> TRUE, ret |-> ZeroHash, err |-> NoErr, db |-> h.db, reqs |-> h.reqs]
       ELSE IF h.ret # NilHeader
       THEN [panic |-> FALSE, ret |-> HeaderHash(h.ret), err |-> NoErr, db |-> h.db, reqs |-> h.reqs]
       ELSE [panic |-> FALSE, ret |-> ZeroHash, err |-> h.err, db |-> h.db, reqs |-> h.reqs]

(***************************************************************************)
(* Body and block                                                          *)
(***************************************************************************)
\* Mutant: a body fetched from the remote is kept in the local store.
GetBodyRLP_Caches(d, hash, number, ans) ==
  LET data == ReadBodyRLP(d, hash, number) IN
  IF data # NilRaw
  THEN [panic |-> FALSE, ret |-> data, err |-> NoErr, db |-> d, reqs |-> <<>>]
  ELSE LET r == BlockRequest(hash, number) IN
       IF ans.err # NoErr
       THEN [panic |-> FALSE, ret |-> NilRaw, err |-> ans.err, db |-> d, reqs |-> <<r>>]
       ELSE [panic |-> FALSE, ret |-> ans.Rlp, err |-> NoErr,
             db |-> [d EXCEPT !.bodies =
                       [k \in (DOMAIN d.bodies) \cup {<<hash, number>>} |->
                          IF k = <<hash, number>> THEN ans.Rlp ELSE d.bodies[k]]],
             reqs |-> <<r>>]

\* Mutant: the remote is asked even when the body is stored locally.
GetBodyRLP_AlwaysFetch(d, hash, number, ans) ==
  LET data == ReadBodyRLP(d, hash, number)
      r == BlockRequest(hash, number)
  IN
  IF data # NilRaw
  THEN [panic |-> FALSE, ret |-> data, err |-> NoErr, db |-> d, reqs |-> <<r>>]
  ELSE IF ans.err # NoErr
  THEN [panic |-> FALSE, ret |-> NilRaw, err |-> ans.err, db |-> d, reqs |-> <<r>>]
  ELSE [panic |-> FALSE, ret |-> ans.Rlp, err |-> NoErr, db |-> d, reqs |-> <<r>>]

GetBodyRLP(d, hash, number, ans) ==
  LET data == ReadBodyRLP(d, hash, number) IN
  IF data # NilRaw
  THEN [panic |-> FALSE, ret |-> data, err |-> NoErr, db |-> d, reqs |-> <<>>]
  ELSE LET r == BlockRequest(hash, number) IN
       IF ans.err # NoErr
       THEN [panic |-> FALSE, ret |-> NilRaw, err |-> ans.err, db |-> d, reqs |-> <<r>>]
       ELSE [panic |-> FALSE, ret |-> ans.Rlp, err |-> NoErr, db |-> d, reqs |-> <<r>>]

\* The body is returned as [nil, txs]; nil is TRUE when no body is returned.
NilBody == [nil |-> TRUE, txs |-> <<>>]
Body(txs) == [nil |-> FALSE, txs |-> txs]

GetBody(d, hash, number, ans) ==
  LET Decode(g) ==
        IF g.err # NoErr
        THEN [panic |-> FALSE, ret |-> NilBody, err |-> g.err, db |-> g.db, reqs |-> g.reqs]
        ELSE LET dec == DecodeBody(g.ret) IN
             IF dec.err # NoErr
             THEN [panic |-> FALSE, ret |-> NilBody, err |-> dec.err, db |-> g.db,
                   reqs |-> g.reqs]
             ELSE [panic |-> FALSE, ret |-> Body(dec.txs), err |-> NoErr, db |-> g.db,
                   reqs |-> g.reqs]
  IN Decode(GetBodyRLP(d, hash, number, ans))

\* A block is [nil, header, txs].
NilBlock == [nil |-> TRUE, header |-> NilHeader, txs |-> <<>>]
NewBlock(header, txs) == [nil |-> FALSE, header |-> header, txs |-> txs]

\* Mutant: the body is resolved before the header is looked up.
GetBlock_BodyFirst(d, hash, number, ans) ==
  LET header == ReadHeader(d, hash, number)
      WithBody(b) ==
        IF header = NilHeader
        THEN [panic |-> FALSE, ret |-> NilBlock, err |-> ErrNoHeader, db |-> b.db,
              reqs |-> b.reqs]
        ELSE IF b.err # NoErr
        THEN [panic |-> FALSE, ret |-> NilBlock, err |-> b.err, db |-> b.db, reqs |-> b.reqs]
        ELSE [panic |-> FALSE, ret |-> NewBlock(header, b.ret.txs), err |-> NoErr,
              db |-> b.db, reqs |-> b.reqs]
  IN WithBody(GetBody(d, hash, number, ans))

GetBlock(d, hash, number, ans) ==
  LET header == ReadHeader(d, hash, number)
      WithBody(b) ==
        IF b.err # NoErr
        THEN [panic |-> FALSE, ret |-> NilBlock, err |-> b.err, db |-> b.db, reqs |-> b.reqs]
        ELSE [panic |-> FALSE, ret |-> NewBlock(header, b.ret.txs), err |-> NoErr,
              db |-> b.db, reqs |-> b.reqs]
  IN
  IF header = NilHeader
  THEN [panic |-> FALSE, ret |-> NilBlock, err |-> ErrNoHeader, db |-> d, reqs |-> <<>>]
  ELSE WithBody(GetBody(d, hash, number, ans))

(***************************************************************************)
(* Receipts and logs                                                       *)
(***************************************************************************)
\* types.Receipts.DeriveFields: fills the transaction-hash linkage of every
\* receipt from the block's transactions; fails when the counts differ.
DeriveFields(receipts, hash, number, txs) ==
  IF Len(txs) # Len(receipts)
  THEN [err |-> ErrDerive, receipts |-> receipts]
  ELSE [err |-> NoErr,
        receipts |-> [i \in DOMAIN receipts |->
                        [receipts[i] EXCEPT !.TxHash = TxHash(txs[i])]]]

ReceiptWrite(hash, number, receipts) ==
  [present |-> TRUE, key |-> <<hash, number>>, receipts |-> receipts]

\* Mutant: the derived receipts are returned but not persisted.
GetBlockReceipts_NoWrite(d, hash, number, ansReceipts, ansBody) ==
  LET local == ReadRawReceipts(d, hash, number)
      r == ReceiptsRequest(hash, number, NilHeader, FALSE)
      reqs == IF local.present THEN <<>> ELSE <<r>>
  IN
  IF ~local.present /\ ansReceipts.err # NoErr
  THEN [panic |-> FALSE, ret |-> NilReceipts, err |-> ansReceipts.err, db |-> d,
        reqs |-> reqs, writes |-> <<>>]
  ELSE
    LET receipts == IF local.present THEN local ELSE ansReceipts.Receipts IN
    IF Len(receipts.list) > 0 /\ receipts.list[1].TxHash = ZeroHash
    THEN
      LET Enrich(b) ==
          IF b.err # NoErr
          THEN [panic |-> FALSE, ret |-> NilReceipts, err |-> b.err, db |-> b.db,
                reqs |-> reqs \o b.reqs, writes |-> <<>>]
          ELSE
            LET dv == DeriveFields(receipts.list, HeaderHash(b.ret.header),
                                   HeaderNumber(b.ret.header), b.ret.txs)
            IN
            IF dv.err # NoErr
            THEN [panic |-> FALSE, ret |-> NilReceipts, err |-> dv.err, db |-> b.db,
                  reqs |-> reqs \o b.reqs, writes |-> <<>>]
            ELSE [panic |-> FALSE, ret |-> SomeReceipts(dv.receipts), err |-> NoErr,
                  db |-> b.db, reqs |-> reqs \o b.reqs, writes |-> <<>>]
      IN Enrich(GetBlock(d, hash, number, ansBody))
    ELSE [panic |-> FALSE, ret |-> receipts, err |-> NoErr, db |-> d,
          reqs |-> reqs, writes |-> <<>>]

\* Mutant: the receipts are persisted as obtained, before the block is resolved.
GetBlockReceipts_WriteRaw(d, hash, number, ansReceipts, ansBody) ==
  LET local == ReadRawReceipts(d, hash, number)
      r == ReceiptsRequest(hash, number, NilHeader, FALSE)
      reqs == IF local.present THEN <<>> ELSE <<r>>
  IN
  IF ~local.present /\ ansReceipts.err # NoErr
  THEN [panic |-> FALSE, ret |-> NilReceipts, err |-> ansReceipts.err, db |-> d,
        reqs |-> reqs, writes |-> <<>>]
  ELSE
    LET receipts == IF local.present THEN local ELSE ansReceipts.Receipts IN
    IF Len(receipts.list) > 0 /\ receipts.list[1].TxHash = ZeroHash
    THEN
      LET Enrich(b) ==
          IF b.err # NoErr
          THEN [panic |-> FALSE, ret |-> NilReceipts, err |-> b.err, db |-> b.db,
                reqs |-> reqs \o b.reqs, writes |-> <<>>]
          ELSE
            LET dv == DeriveFields(receipts.list, HeaderHash(b.ret.header),
                                   HeaderNumber(b.ret.header), b.ret.txs)
            IN
            IF dv.err # NoErr
            THEN [panic |-> FALSE, ret |-> NilReceipts, err |-> dv.err, db |-> b.db,
                  reqs |-> reqs \o b.reqs, writes |-> <<>>]
            ELSE [panic |-> FALSE, ret |-> SomeReceipts(dv.receipts), err |-> NoErr,
                  db |-> b.db, reqs |-> reqs \o b.reqs,
                  writes |-> <<ReceiptWrite(hash, number, receipts.list)>>]
      IN Enrich(GetBlock(WriteReceipts(d, hash, number, receipts.list), hash, number, ansBody))
    ELSE [panic |-> FALSE, ret |-> receipts, err |-> NoErr, db |-> d,
          reqs |-> reqs, writes |-> <<>>]

\* Mutant: the presence check is dropped, every non-empty set is derived again.
GetBlockReceipts_AlwaysDerive(d, hash, number, ansReceipts, ansBody) ==
  LET local == ReadRawReceipts(d, hash, number)
      r == ReceiptsRequest(hash, number, NilHeader, FALSE)
      reqs == IF local.present THEN <<>> ELSE <<r>>
  IN
  IF ~local.present /\ ansReceipts.err # NoErr
  THEN [panic |-> FALSE, ret |-> NilReceipts, err |-> ansReceipts.err, db |-> d,
        reqs |-> reqs, writes |-> <<>>]
  ELSE
    LET receipts == IF local.present THEN local ELSE ansReceipts.Receipts IN
    IF Len(receipts.list) > 0
    THEN
      LET Enrich(b) ==
          IF b.err # NoErr
          THEN [panic |-> FALSE, ret |-> NilReceipts, err |-> b.err, db |-> b.db,
                reqs |-> reqs \o b.reqs, writes |-> <<>>]
          ELSE
            LET dv == DeriveFields(receipts.list, HeaderHash(b.ret.header),
                                   HeaderNumber(b.ret.header), b.ret.txs)
            IN
            IF dv.err # NoErr
            THEN [panic |-> FALSE, ret |-> NilReceipts, err |-> dv.err, db |-> b.db,
                  reqs |-> reqs \o b.reqs, writes |-> <<>>]
            ELSE [panic |-> FALSE, ret |-> SomeReceipts(dv.receipts), err |-> NoErr,
                  db |-> WriteReceipts(b.db, hash, number, dv.receipts),
                  reqs |-> reqs \o b.reqs,
                  writes |-> <<ReceiptWrite(hash, number, dv.receipts)>>]
      IN Enrich(GetBlock(d, hash, number, ansBody))
    ELSE [panic |-> FALSE, ret |-> receipts, err |-> NoErr, db |-> d,
          reqs |-> reqs, writes |-> <<>>]

\* Mutant: a fetched receipt set that needs no derivation is persisted too.
GetBlockReceipts_CachesFetched(d, hash, number, ansReceipts, ansBody) ==
  LET local == ReadRawReceipts(d, hash, number)
      r == ReceiptsRequest(hash, number, NilHeader, FALSE)
      reqs == IF local.present THEN <<>> ELSE <<r>>
  IN
  IF ~local.present /\ ansReceipts.err # NoErr
  THEN [panic |-> FALSE, ret |-> NilReceipts, err |-> ansReceipts.err, db |-> d,
        reqs |-> reqs, writes |-> <<>>]
  ELSE
    LET receipts == IF local.present THEN local ELSE ansReceipts.Receipts IN
    IF Len(receipts.list) > 0 /\ receipts.list[1].TxHash = ZeroHash
    THEN
      LET Enrich(b) ==
          IF b.err # NoErr
          THEN [panic |-> FALSE, ret |-> NilReceipts, err |-> b.err, db |-> b.db,
                reqs |-> reqs \o b.reqs, writes |-> <<>>]
          ELSE
            LET dv == DeriveFields(receipts.list, HeaderHash(b.ret.header),
                                   HeaderNumber(b.ret.header), b.ret.txs)
            IN
            IF dv.err # NoErr
            THEN [panic |-> FALSE, ret |-> NilReceipts, err |-> dv.err, db |-> b.db,
                  reqs |-> reqs \o b.reqs, writes |-> <<>>]
            ELSE [panic |-> FALSE, ret |-> SomeReceipts(dv.receipts), err |-> NoErr,
                  db |-> WriteReceipts(b.db, hash, number, dv.receipts),
                  reqs |-> reqs \o b.reqs,
                  writes |-> <<ReceiptWrite(hash, number, dv.receipts)>>]
      IN Enrich(GetBlock(d, hash, number, ansBody))
    ELSE IF local.present
    THEN [panic |-> FALSE, ret |-> receipts, err |-> NoErr, db |-> d,
          reqs |-> reqs, writes |-> <<>>]
    ELSE [panic |-> FALSE, ret |-> receipts, err |-> NoErr,
          db |-> WriteReceipts(d, hash, number, receipts.list),
          reqs |-> reqs, writes |-> <<ReceiptWrite(hash, number, receipts.list)>>]

GetBlockReceipts(d, hash, number, ansReceipts, ansBody) ==
  LET local == ReadRawReceipts(d, hash, number)
      r == ReceiptsRequest(hash, number, NilHeader, FALSE)
      reqs == IF local.present THEN <<>> ELSE <<r>>
  IN
  IF ~local.present /\ ansReceipts.err # NoErr
  THEN [panic |-> FALSE, ret |-> NilReceipts, err |-> ansReceipts.err, db |-> d,
        reqs |-> reqs, writes |-> <<>>]
  ELSE
    LET receipts == IF local.present THEN local ELSE ansReceipts.Receipts IN
    IF Len(receipts.list) > 0 /\ receipts.list[1].TxHash = ZeroHash
    THEN
      LET Enrich(b) ==
          IF b.err # NoErr
          THEN [panic |-> FALSE, ret |-> NilReceipts, err |-> b.err, db |-> b.db,
                reqs |-> reqs \o b.reqs, writes |-> <<>>]
          ELSE
            LET dv == DeriveFields(receipts.list, HeaderHash(b.ret.header),
                                   HeaderNumber(b.ret.header), b.ret.txs)
            IN
            IF dv.err # NoErr
            THEN [panic |-> FALSE, ret |-> NilReceipts, err |-> dv.err, db |-> b.db,
                  reqs |-> reqs \o b.reqs, writes |-> <<>>]
            ELSE [panic |-> FALSE, ret |-> SomeReceipts(dv.receipts), err |-> NoErr,
                  db |-> WriteReceipts(b.db, hash, number, dv.receipts),
                  reqs |-> reqs \o b.reqs,
                  writes |-> <<ReceiptWrite(hash, number, dv.receipts)>>]
      IN Enrich(GetBlock(d, hash, number, ansBody))
    ELSE [panic |-> FALSE, ret |-> receipts, err |-> NoErr, db |-> d,
          reqs |-> reqs, writes |-> <<>>]

\* The per-transaction log lists; NilLogs when no logs are returned.
NilLogs == [present |-> FALSE, list |-> <<>>]
LogsOf(receipts) ==
  [present |-> TRUE, list |-> [i \in DOMAIN receipts.list |-> receipts.list[i].Logs]]

GetBlockLogs(d, hash, number, ansReceipts, ansBody) ==
  LET Logs(g) ==
        IF g.err # NoErr
        THEN [panic |-> FALSE, ret |-> NilLogs, err |-> g.err, db |-> g.db, reqs |-> g.reqs,
              writes |-> g.writes]
        ELSE [panic |-> FALSE, ret |-> LogsOf(g.ret), err |-> NoErr, db |-> g.db,
              reqs |-> g.reqs, writes |-> g.writes]
  IN Logs(GetBlockReceipts(d, hash, number, ansReceipts, ansBody))

\* Mutant: the untrusted receipts fetched from the remote are persisted.
GetUntrustedBlockLogs_Stores(d, header, ansReceipts) ==
  LET hash == HeaderHash(header)
      number == HeaderNumber(header)
      local == ReadRawReceipts(d, hash, number)
      r == ReceiptsRequest(hash, number, header, TRUE)
  IN
  IF ~local.present
  THEN IF ansReceipts.err # NoErr
       THEN [panic |-> FALSE, ret |-> NilLogs, err |-> ansReceipts.err, db |-> d,
             reqs |-> <<r>>, writes |-> <<>>]
       ELSE [panic |-> FALSE, ret |-> LogsOf(ansReceipts.Receipts), err |-> NoErr,
             db |-> WriteReceipts(d, hash, number, ansReceipts.Receipts.list),
             reqs |-> <<r>>, writes |-> <<>>]
  ELSE [panic |-> FALSE, ret |-> LogsOf(local), err |-> NoErr, db |-> d,
        reqs |-> <<>>, writes |-> <<>>]

GetUntrustedBlockLogs(d, header, ansReceipts) ==
  LET hash == HeaderHash(header)
      number == HeaderNumber(header)
      local == ReadRawReceipts(d, hash, number)
      r == ReceiptsRequest(hash, number, header, TRUE)
  IN
  IF ~local.present
  THEN IF ansReceipts.err # NoErr
       THEN [panic |-> FALSE, ret |-> NilLogs, err |-> ansReceipts.err, db |-> d,
             reqs |-> <<r>>, writes |-> <<>>]
       ELSE [panic |-> FALSE, ret |-> LogsOf(ansReceipts.Receipts), err |-> NoErr,
             db |-> d, reqs |-> <<r>>, writes |-> <<>>]
  ELSE [panic |-> FALSE, ret |-> LogsOf(local), err |-> NoErr, db |-> d,
        reqs |-> <<>>, writes |-> <<>>]

(***************************************************************************)
(* Bloom bits                                                              *)
(***************************************************************************)
\* odr.FastIndexerConfig(): the section sizes, in blocks (scaled down)
BloomSize == 2
BloomTrieSize == 2

\* uint64 arithmetic wraps around; the modulus is scaled down and lies above
\* every number the model reaches.
Uint64Modulus == 64
Uint64(x) == x % Uint64Modulus

\* The bloom trie indexer: indexer.count sections, indexer.heads[i] the head
\* hash of section i.
SectionHead(idx, section) ==
  IF section \in DOMAIN idx.heads THEN idx.heads[section] ELSE ZeroHash

Sections(idx) ==
  [count |-> idx.count,
   headNum |-> Uint64(idx.count * BloomTrieSize - 1),
   head |-> SectionHead(idx, Uint64(idx.count - 1))]

BloomRequest(root, num, bitIdx, sectionIndexList) ==
  [kind |-> "BloomRequest", BloomTrieRoot |-> root, BloomTrieNum |-> num,
   BitIdx |-> bitIdx, SectionIndexList |-> sectionIndexList]

\* The k-th vector of a remote answer
RemoteBits(k) == [src |-> "remote", pos |-> k]
BloomAnswers ==
  {[err |-> e, BloomBits |-> <<>>] : e \in RemoteErrs}
    \cup {[err |-> NoErr, BloomBits |-> [k \in 1..MaxList |-> RemoteBits(k)]]}

Trust(bloomTrieCount, sectionHeadNum, sectionHead) ==
  [bloomTrieCount |-> bloomTrieCount, sectionHeadNum |-> sectionHeadNum,
   sectionHead |-> sectionHead]

\* The reconciliation loop: the trusted count is rolled back while the
\* canonical hash at the section head is known and differs from the head.
RECURSIVE ReconcileLoop(_, _, _, _, _, _)
ReconcileLoop(d, idx, bloomTrieCount, sectionHeadNum, sectionHead, canonicalHash) ==
  IF bloomTrieCount > 0 /\ canonicalHash # sectionHead /\ canonicalHash # ZeroHash
  THEN LET count == bloomTrieCount - 1 IN
       IF count > 0
       THEN LET num == count * BloomTrieSize - 1 IN
            ReconcileLoop(d, idx, count, num, SectionHead(idx, count - 1),
                          ReadCanonicalHash(d, num))
       ELSE ReconcileLoop(d, idx, count, sectionHeadNum, sectionHead, canonicalHash)
  ELSE Trust(bloomTrieCount, sectionHeadNum, sectionHead)

\* Mutant: the count is rolled back by one section at most.
Reconcile_OneStep(d, idx) ==
  IF idx.present
  THEN LET s == Sections(idx)
           canonicalHash == ReadCanonicalHash(d, s.headNum)
       IN
       IF s.count > 0 /\ canonicalHash # s.head /\ canonicalHash # ZeroHash
       THEN Trust(s.count - 1, Uint64((s.count - 1) * BloomTrieSize - 1),
                  SectionHead(idx, Uint64(s.count - 2)))
       ELSE Trust(s.count, s.headNum, s.head)
  ELSE Trust(0, 0, ZeroHash)

\* Mutant: an unknown (zero) canonical hash is no longer accepted; the count
\* is rolled back until the section head equals the canonical hash.
Reconcile_NoLeniency(d, idx) ==
  LET RECURSIVE Strict(_, _, _, _)
      Strict(bloomTrieCount, sectionHeadNum, sectionHead, canonicalHash) ==
        IF bloomTrieCount > 0 /\ canonicalHash # sectionHead
        THEN LET count == bloomTrieCount - 1 IN
             IF count > 0
             THEN LET num == count * BloomTrieSize - 1 IN
                  Strict(count, num, SectionHead(idx, count - 1), ReadCanonicalHash(d, num))
             ELSE Strict(count, sectionHeadNum, sectionHead, canonicalHash)
        ELSE Trust(bloomTrieCount, sectionHeadNum, sectionHead)
  IN
  IF idx.present
  THEN LET s == Sections(idx) IN
       Strict(s.count, s.headNum, s.head, ReadCanonicalHash(d, s.headNum))
  ELSE Trust(0, 0, ZeroHash)

Reconcile(d, idx) ==
  IF idx.present
  THEN LET s == Sections(idx) IN
       ReconcileLoop(d, idx, s.count, s.headNum, s.head, ReadCanonicalHash(d, s.headNum))
  ELSE Trust(0, 0, ZeroHash)

Scan(fatal, result, reqList, reqIdx) ==
  [fatal |-> fatal, result |-> result, reqList |-> reqList, reqIdx |-> reqIdx]

\* Mutant: only a miss strictly beyond the trusted count is fatal.
RECURSIVE ScanSections_Beyond(_, _, _, _, _, _, _, _)
ScanSections_Beyond(d, bitIdx, sectionIdxList, bloomTrieCount, i, result, reqList, reqIdx) ==
  IF i > Len(sectionIdxList)
  THEN Scan(FALSE, result, reqList, reqIdx)
  ELSE
    LET sectionIdx == sectionIdxList[i]
        sectionHead == ReadCanonicalHash(d, (sectionIdx + 1) * BloomSize - 1)
        rb == ReadBloomBits(d, bitIdx, sectionIdx, sectionHead)
    IN
    IF rb.err = NoErr
    THEN ScanSections_Beyond(d, bitIdx, sectionIdxList, bloomTrieCount, i + 1,
                             [result EXCEPT ![i] = rb.bits], reqList, reqIdx)
    ELSE IF sectionIdx > bloomTrieCount
    THEN Scan(TRUE, result, reqList, reqIdx)
    ELSE ScanSections_Beyond(d, bitIdx, sectionIdxList, bloomTrieCount, i + 1, result,
                             Append(reqList, sectionIdx), Append(reqIdx, i))

\* Mutant: the trusted count is not consulted; every miss is queued.
RECURSIVE ScanSections_NoTrustCheck(_, _, _, _, _, _, _, _)
ScanSections_NoTrustCheck(d, bitIdx, sectionIdxList, bloomTrieCount, i, result, reqList, reqIdx) ==
  IF i > Len(sectionIdxList)
  THEN Scan(FALSE, result, reqList, reqIdx)
  ELSE
    LET sectionIdx == sectionIdxList[i]
        sectionHead == ReadCanonicalHash(d, (sectionIdx + 1) * BloomSize - 1)
        rb == ReadBloomBits(d, bitIdx, sectionIdx, sectionHead)
    IN
    IF rb.err = NoErr
    THEN ScanSections_NoTrustCheck(d, bitIdx, sectionIdxList, bloomTrieCount, i + 1,
                                   [result EXCEPT ![i] = rb.bits], reqList, reqIdx)
    ELSE ScanSections_NoTrustCheck(d, bitIdx, sectionIdxList, bloomTrieCount, i + 1, result,
                                   Append(reqList, sectionIdx), Append(reqIdx, i))

\* The loop over the requested sections, from position i on: local hits fill
\* their slot, misses are queued with their position, a miss at or beyond the
\* trusted count ends the call.
RECURSIVE ScanSections(_, _, _, _, _, _, _, _)
ScanSections(d, bitIdx, sectionIdxList, bloomTrieCount, i, result, reqList, reqIdx) ==
  IF i > Len(sectionIdxList)
  THEN Scan(FALSE, result, reqList, reqIdx)
  ELSE
    LET sectionIdx == sectionIdxList[i]
        sectionHead == ReadCanonicalHash(d, (sectionIdx + 1) * BloomSize - 1)
        rb == ReadBloomBits(d, bitIdx, sectionIdx, sectionHead)
    IN
    IF rb.err = NoErr
    THEN ScanSections(d, bitIdx, sectionIdxList, bloomTrieCount, i + 1,
                      [result EXCEPT ![i] = rb.bits], reqList, reqIdx)
    ELSE IF sectionIdx >= bloomTrieCount
    THEN Scan(TRUE, result, reqList, reqIdx)
    ELSE ScanSections(d, bitIdx, sectionIdxList, bloomTrieCount, i + 1, result,
                      Append(reqList, sectionIdx), Append(reqIdx, i))

\* The result of GetBloomBits: nil, or one slot per requested section.
NilBloomBits == [nil |-> TRUE, bits |-> <<>>]
BloomBits(result) == [nil |-> FALSE, bits |-> result]

\* Mutant: when the remote fails, the slots filled from the local store are
\* returned with the error.
GetBloomBits_PartialOnFailure(d, idx, bitIdx, sectionIdxList, ans) ==
  LET trust == Reconcile(d, idx)
      bloomTrieCount == trust.bloomTrieCount
      scan == ScanSections(d, bitIdx, sectionIdxList, bloomTrieCount, 1,
                           [i \in DOMAIN sectionIdxList |-> NilBits], <<>>, <<>>)
      local == [trust |-> trust, reqIdx |-> scan.reqIdx]
  IN
  IF scan.fatal
  THEN [panic |-> FALSE, ret |-> NilBloomBits, err |-> ErrNoTrustedBloomTrie, db |-> d,
        reqs |-> <<>>, local |-> local]
  ELSE IF scan.reqList = <<>>
  THEN [panic |-> FALSE, ret |-> BloomBits(scan.result), err |-> NoErr, db |-> d,
        reqs |-> <<>>, local |-> local]
  ELSE
    LET r == BloomRequest(GetBloomTrieRoot(d, Uint64(bloomTrieCount - 1), trust.sectionHead),
                          Uint64(bloomTrieCount - 1), bitIdx, scan.reqList)
    IN
    IF ans.err # NoErr
    THEN [panic |-> FALSE, ret |-> BloomBits(scan.result), err |-> ans.err, db |-> d,
          reqs |-> <<r>>, local |-> local]
    ELSE [panic |-> FALSE,
          ret |-> BloomBits([slot \in DOMAIN scan.result |->
                    IF \E i \in DOMAIN scan.reqIdx : scan.reqIdx[i] = slot
                    THEN ans.BloomBits[CHOOSE i \in DOMAIN scan.reqIdx : scan.reqIdx[i] = slot]
                    ELSE scan.result[slot]]),
          err |-> NoErr, db |-> d, reqs |-> <<r>>, local |-> local]

\* Mutant: the k-th returned vector goes to slot k, positions are inferred
\* instead of tracked.
GetBloomBits_ScatterInOrder(d, idx, bitIdx, sectionIdxList, ans) ==
  LET trust == Reconcile(d, idx)
      bloomTrieCount == trust.bloomTrieCount
      scan == ScanSections(d, bitIdx, sectionIdxList, bloomTrieCount, 1,
                           [i \in DOMAIN sectionIdxList |-> NilBits], <<>>, <<>>)
      local == [trust |-> trust, reqIdx |-> scan.reqIdx]
  IN
  IF scan.fatal
  THEN [panic |-> FALSE, ret |-> NilBloomBits, err |-> ErrNoTrustedBloomTrie, db |-> d,
        reqs |-> <<>>, local |-> local]
  ELSE IF scan.reqList = <<>>
  THEN [panic |-> FALSE, ret |-> BloomBits(scan.result), err |-> NoErr, db |-> d,
        reqs |-> <<>>, local |-> local]
  ELSE
    LET r == BloomRequest(GetBloomTrieRoot(d, Uint64(bloomTrieCount - 1), trust.sectionHead),
                          Uint64(bloomTrieCount - 1), bitIdx, scan.reqList)
    IN
    IF ans.err # NoErr
    THEN [panic |-> FALSE, ret |-> NilBloomBits, err |-> ans.err, db |-> d,
          reqs |-> <<r>>, local |-> local]
    ELSE [panic |-> FALSE,
          ret |-> BloomBits([slot \in DOMAIN scan.result |->
                    IF slot \in DOMAIN scan.reqIdx
                    THEN ans.BloomBits[slot]
                    ELSE scan.result[slot]]),
          err |-> NoErr, db |-> d, reqs |-> <<r>>, local |-> local]

\* Mutant: every requested section is fetched from the remote, local hits
\* included.
GetBloomBits_RequestAll(d, idx, bitIdx, sectionIdxList, ans) ==
  LET trust == Reconcile(d, idx)
      bloomTrieCount == trust.bloomTrieCount
      scan == ScanSections(d, bitIdx, sectionIdxList, bloomTrieCount, 1,
                           [i \in DOMAIN sectionIdxList |-> NilBits], <<>>, <<>>)
      local == [trust |-> trust, reqIdx |-> scan.reqIdx]
  IN
  IF scan.fatal
  THEN [panic |-> FALSE, ret |-> NilBloomBits, err |-> ErrNoTrustedBloomTrie, db |-> d,
        reqs |-> <<>>, local |-> local]
  ELSE IF scan.reqList = <<>>
  THEN [panic |-> FALSE, ret |-> BloomBits(scan.result), err |-> NoErr, db |-> d,
        reqs |-> <<>>, local |-> local]
  ELSE
    LET r == BloomRequest(GetBloomTrieRoot(d, Uint64(bloomTrieCount - 1), trust.sectionHead),
                          Uint64(bloomTrieCount - 1), bitIdx, sectionIdxList)
    IN
    IF ans.err # NoErr
    THEN [panic |-> FALSE, ret |-> NilBloomBits, err |-> ans.err, db |-> d,
          reqs |-> <<r>>, local |-> local]
    ELSE [panic |-> FALSE,
          ret |-> BloomBits([slot \in DOMAIN scan.result |->
                    IF \E i \in DOMAIN scan.reqIdx : scan.reqIdx[i] = slot
                    THEN ans.BloomBits[CHOOSE i \in DOMAIN scan.reqIdx : scan.reqIdx[i] = slot]
                    ELSE scan.result[slot]]),
          err |-> NoErr, db |-> d, reqs |-> <<r>>, local |-> local]

\* Mutant: the request carries the trust boundary the indexer reported, not
\* the reconciled one.
GetBloomBits_OriginalBoundary(d, idx, bitIdx, sectionIdxList, ans) ==
  LET trust == Reconcile(d, idx)
      bloomTrieCount == trust.bloomTrieCount
      scan == ScanSections(d, bitIdx, sectionIdxList, bloomTrieCount, 1,
                           [i \in DOMAIN sectionIdxList |-> NilBits], <<>>, <<>>)
      local == [trust |-> trust, reqIdx |-> scan.reqIdx]
  IN
  IF scan.fatal
  THEN [panic |-> FALSE, ret |-> NilBloomBits, err |-> ErrNoTrustedBloomTrie, db |-> d,
        reqs |-> <<>>, local |-> local]
  ELSE IF scan.reqList = <<>>
  THEN [panic |-> FALSE, ret |-> BloomBits(scan.result), err |-> NoErr, db |-> d,
        reqs |-> <<>>, local |-> local]
  ELSE
    LET r == BloomRequest(GetBloomTrieRoot(d, Uint64(Sections(idx).count - 1),
                                           Sections(idx).head),
                          Uint64(Sections(idx).count - 1), bitIdx, scan.reqList)
    IN
    IF ans.err # NoErr
    THEN [panic |-> FALSE, ret |-> NilBloomBits, err |-> ans.err, db |-> d,
          reqs |-> <<r>>, local |-> local]
    ELSE [panic |-> FALSE,
          ret |-> BloomBits([slot \in DOMAIN scan.result |->
                    IF \E i \in DOMAIN scan.reqIdx : scan.reqIdx[i] = slot
                    THEN ans.BloomBits[CHOOSE i \in DOMAIN scan.reqIdx : scan.reqIdx[i] = slot]
                    ELSE scan.result[slot]]),
          err |-> NoErr, db |-> d, reqs |-> <<r>>, local |-> local]

GetBloomBits(d, idx, bitIdx, sectionIdxList, ans) ==
  LET trust == Reconcile(d, idx)
      bloomTrieCount == trust.bloomTrieCount
      scan == ScanSections(d, bitIdx, sectionIdxList, bloomTrieCount, 1,
                           [i \in DOMAIN sectionIdxList |-> NilBits], <<>>, <<>>)
      local == [trust |-> trust, reqIdx |-> scan.reqIdx]
  IN
  IF scan.fatal
  THEN [panic |-> FALSE, ret |-> NilBloomBits, err |-> ErrNoTrustedBloomTrie, db |-> d,
        reqs |-> <<>>, local |-> local]
  ELSE IF scan.reqList = <<>>
  THEN [panic |-> FALSE, ret |-> BloomBits(scan.result), err |-> NoErr, db |-> d,
        reqs |-> <<>>, local |-> local]
  ELSE
    LET r == BloomRequest(GetBloomTrieRoot(d, Uint64(bloomTrieCount - 1), trust.sectionHead),
                          Uint64(bloomTrieCount - 1), bitIdx, scan.reqList)
    IN
    IF ans.err # NoErr
    THEN [panic |-> FALSE, ret |-> NilBloomBits, err |-> ans.err, db |-> d,
          reqs |-> <<r>>, local |-> local]
    ELSE [panic |-> FALSE,
          ret |-> BloomBits([slot \in DOMAIN scan.result |->
                    IF \E i \in DOMAIN scan.reqIdx : scan.reqIdx[i] = slot
                    THEN ans.BloomBits[CHOOSE i \in DOMAIN scan.reqIdx : scan.reqIdx[i] = slot]
                    ELSE scan.result[slot]]),
          err |-> NoErr, db |-> d, reqs |-> <<r>>, local |-> local]

(***************************************************************************)
(* Transaction locator                                                     *)
(***************************************************************************)
TxStatusIncluded == "Included"
TxStatusUnknown == "Unknown"
TxStatusRequest(txHash) == [kind |-> "TxStatusRequest", Hashes |-> <<txHash>>]
Lookup(blockHash, blockIndex, index) ==
  [BlockHash |-> blockHash, BlockIndex |-> blockIndex, Index |-> index]
NoLookup == Lookup(ZeroHash, 0, 0)
\* The index of a locator may lie past the end of the longest body.
Lookups == {Lookup(h, n, i) : h \in NzHashes, n \in Numbers, i \in 0..NumTx}

TxStatusAnswers ==
  {[err |-> e, Status |-> TxStatusUnknown, Lookup |-> NoLookup] : e \in RemoteErrs}
    \cup {[err |-> NoErr, Status |-> TxStatusUnknown, Lookup |-> NoLookup]}
    \cup {[err |-> NoErr, Status |-> TxStatusIncluded, Lookup |-> l] : l \in Lookups}

\* header.Hash() is also evaluated on the nil header GetHeaderByNumber returns
\* when no canonical hash is recorded.  What the method does on a nil receiver
\* is fixed by the build: it panics, or it hashes the empty encoding, which is
\* some fixed non-zero hash.
NilHashOutcomes ==
  {[panics |-> TRUE, hash |-> ZeroHash], [panics |-> FALSE, hash |-> NumHash]}

\* The nil *types.Transaction
NilTx == 0
TxRet(tx, blockHash, blockIndex, index) ==
  [tx |-> tx, blockHash |-> blockHash, blockIndex |-> blockIndex, index |-> index]
NilTxRet == TxRet(NilTx, ZeroHash, 0, 0)

\* Mutant: the reported status is not checked; the locator of a transaction
\* that is not included is looked up like any other.
GetTransaction_IgnoresStatus(d, txHash, ansStatus, ansBody, nilHash) ==
  LET r == TxStatusRequest(txHash) IN
  IF ansStatus.err # NoErr
  THEN [panic |-> FALSE, ret |-> NilTxRet, err |-> ansStatus.err, db |-> d, reqs |-> <<r>>]
  ELSE
    LET pos == ansStatus.Lookup
        h == GetHeaderByNumber(d, pos.BlockIndex)
    IN
    IF h.panic \/ (h.err = NoErr /\ h.ret = NilHeader /\ nilHash.panics)
    THEN [panic |-> TRUE, ret |-> NilTxRet, err |-> NoErr, db |-> h.db, reqs |-> <<r>>]
    ELSE
      LET headerHash == IF h.ret = NilHeader THEN nilHash.hash ELSE HeaderHash(h.ret) IN
      IF h.err # NoErr \/ headerHash # pos.BlockHash
      THEN [panic |-> FALSE, ret |-> NilTxRet, err |-> h.err, db |-> h.db, reqs |-> <<r>>]
      ELSE
        LET b == GetBody(h.db, pos.BlockHash, pos.BlockIndex, ansBody) IN
        IF b.err # NoErr
             \/ Len(b.ret.txs) <= pos.Index
             \/ TxHash(b.ret.txs[pos.Index + 1]) # txHash
        THEN [panic |-> FALSE, ret |-> NilTxRet, err |-> b.err, db |-> b.db,
              reqs |-> <<r>> \o b.reqs]
        ELSE [panic |-> FALSE,
              ret |-> TxRet(b.ret.txs[pos.Index + 1], pos.BlockHash, pos.BlockIndex, pos.Index),
              err |-> NoErr, db |-> b.db, reqs |-> <<r>> \o b.reqs]

GetTransaction(d, txHash, ansStatus, ansBody, nilHash) ==
  LET r == TxStatusRequest(txHash) IN
  IF ansStatus.err # NoErr \/ ansStatus.Status # TxStatusIncluded
  THEN [panic |-> FALSE, ret |-> NilTxRet, err |-> ansStatus.err, db |-> d, reqs |-> <<r>>]
  ELSE
    LET pos == ansStatus.Lookup
        h == GetHeaderByNumber(d, pos.BlockIndex)
    IN
    IF h.panic \/ (h.err = NoErr /\ h.ret = NilHeader /\ nilHash.panics)
    THEN [panic |-> TRUE, ret |-> NilTxRet, err |-> NoErr, db |-> h.db, reqs |-> <<r>>]
    ELSE
      LET headerHash == IF h.ret = NilHeader THEN nilHash.hash ELSE HeaderHash(h.ret) IN
      IF h.err # NoErr \/ headerHash # pos.BlockHash
      THEN [panic |-> FALSE, ret |-> NilTxRet, err |-> h.err, db |-> h.db, reqs |-> <<r>>]
      ELSE
        LET b == GetBody(h.db, pos.BlockHash, pos.BlockIndex, ansBody) IN
        IF b.err # NoErr
             \/ Len(b.ret.txs) <= pos.Index
             \/ TxHash(b.ret.txs[pos.Index + 1]) # txHash
        THEN [panic |-> FALSE, ret |-> NilTxRet, err |-> b.err, db |-> b.db,
              reqs |-> <<r>> \o b.reqs]
        ELSE [panic |-> FALSE,
              ret |-> TxRet(b.ret.txs[pos.Index + 1], pos.BlockHash, pos.BlockIndex, pos.Index),
              err |-> NoErr, db |-> b.db, reqs |-> <<r>> \o b.reqs]

(***************************************************************************)
(* State machine                                                           *)
(***************************************************************************)
EmptyDb == [canonical |-> <<>>, headers |-> {}, bodies |-> <<>>, receipts |-> <<>>,
            bloomBits |-> {}]
NoIndexer == [present |-> FALSE, count |-> 0, heads |-> <<>>]
NoCall == [op |-> "none"]
NoWrite == [present |-> FALSE, key |-> <<>>, receipts |-> <<>>]

\* The remote channel answers only the requests a call submits: the answer to
\* a request the call does not make (seen by running it on a failing answer)
\* is NoAnswer.
NoAnswer == [err |-> "unused"]
Asked(res, kind) == \E i \in DOMAIN res.reqs : res.reqs[i].kind = kind
AnswersTo(probe, kind, answers) == IF Asked(probe, kind) THEN answers ELSE {NoAnswer}
FailBlock == [err |-> ErrRemote, Rlp |-> NilRaw]

\* A caller invokes one retrieval function at a time: the finished call is
\* recorded in `call` until the caller has taken the result (Return).
\* call.writes lists the receipt writes the call made, call.local the values
\* of the local variables the call ended with; lastWrite is the last receipt
\* write any call made.
Idle == call = NoCall

Finish(op, args, res, answers) ==
  LET r == res
      writes == IF "writes" \in DOMAIN r THEN r.writes ELSE <<>>
      local == IF "local" \in DOMAIN r THEN r.local ELSE <<>>
  IN
  /\ call' = [op |-> op, args |-> args, panic |-> r.panic, ret |-> r.ret,
              err |-> r.err, reqs |-> r.reqs, ans |-> answers,
              writes |-> writes, local |-> local]
  /\ db' = r.db
  /\ lastWrite' = IF writes = <<>> THEN lastWrite ELSE writes[Len(writes)]
  /\ UNCHANGED <<indexer, concVars, memVars>>

Return ==
  /\ ~Idle
  /\ call' = NoCall
  /\ UNCHANGED <<db, indexer, lastWrite, concVars, memVars>>

(***************************************************************************)
(* Headers by number: stores with canonical hashes and headers, where a    *)
(* canonical hash may be recorded without its header (a corrupted store).  *)
(***************************************************************************)
HeaderDbs ==
  {[EmptyDb EXCEPT !.canonical = c, !.headers = hs] :
     c \in [Numbers -> Hashes], hs \in SUBSET Keys}

InitHeader ==
  /\ db \in HeaderDbs
  /\ indexer = NoIndexer
  /\ call = NoCall
  /\ lastWrite = NoWrite
  /\ NoConcurrency
  /\ NoMemoryDb

CallGetHeaderByNumber ==
  /\ Idle
  /\ \E number \in Numbers :
       Finish("GetHeaderByNumber", <<number>>, GetHeaderByNumber(db, number), <<>>)

CallGetCanonicalHash ==
  /\ Idle
  /\ \E number \in Numbers :
       Finish("GetCanonicalHash", <<number>>, GetCanonicalHash(db, number), <<>>)

NextHeader ==
  \/ CallGetHeaderByNumber
  \/ CallGetCanonicalHash
  \/ Return

SpecHeader == InitHeader /\ [][NextHeader]_vars

(***************************************************************************)
(* Transaction lookup: stores with a canonical hash recorded at one height *)
(* at most, with or without its header, and at most one stored body.       *)
(***************************************************************************)
NoCanonical == [n \in Numbers |-> ZeroHash]

TxDbs ==
  UNION {{[EmptyDb EXCEPT !.canonical = c, !.headers = hs, !.bodies = b] :
            hs \in SUBSET {<<c[n], n>> : n \in {m \in Numbers : c[m] # ZeroHash}},
            b \in {<<>>} \cup UNION {[{k} -> RawValues] : k \in Keys}} :
         c \in {NoCanonical}
                 \cup {[NoCanonical EXCEPT ![n] = h] : n \in Numbers, h \in NzHashes}}

InitTx ==
  /\ db \in TxDbs
  /\ indexer = NoIndexer
  /\ call = NoCall
  /\ lastWrite = NoWrite
  /\ NoConcurrency
  /\ NoMemoryDb

CallGetTransaction ==
  /\ Idle
  /\ \E txHash \in Txs, ansStatus \in TxStatusAnswers, nilHash \in NilHashOutcomes :
       \E ansBody \in AnswersTo(GetTransaction(db, txHash, ansStatus, FailBlock, nilHash),
                                "BlockRequest", BlockAnswers) :
         Finish("GetTransaction", <<txHash>>,
                GetTransaction(db, txHash, ansStatus, ansBody, nilHash),
                <<ansStatus, ansBody>>)

NextTx ==
  \/ CallGetTransaction
  \/ Return

SpecTx == InitTx /\ [][NextTx]_vars

(***************************************************************************)
(* Bodies and blocks: stores that hold a header (or none) and a body (or   *)
(* none), of the same block or of different ones.                          *)
(***************************************************************************)
BodyDbs ==
  {[EmptyDb EXCEPT !.headers = hs, !.bodies = b] :
     hs \in {{}} \cup {{k} : k \in Keys},
     b \in {<<>>} \cup UNION {[{k} -> RawValues] : k \in Keys}}

InitBody ==
  /\ db \in BodyDbs
  /\ indexer = NoIndexer
  /\ call = NoCall
  /\ lastWrite = NoWrite
  /\ NoConcurrency
  /\ NoMemoryDb

CallGetBodyRLP ==
  /\ Idle
  /\ \E hash \in NzHashes, number \in Numbers :
       \E ans \in AnswersTo(GetBodyRLP(db, hash, number, FailBlock),
                            "BlockRequest", BlockAnswers) :
         Finish("GetBodyRLP", <<hash, number>>, GetBodyRLP(db, hash, number, ans), <<ans>>)

CallGetBody ==
  /\ Idle
  /\ \E hash \in NzHashes, number \in Numbers :
       \E ans \in AnswersTo(GetBody(db, hash, number, FailBlock),
                            "BlockRequest", BlockAnswers) :
         Finish("GetBody", <<hash, number>>, GetBody(db, hash, number, ans), <<ans>>)

CallGetBlock ==
  /\ Idle
  /\ \E hash \in NzHashes, number \in Numbers :
       \E ans \in AnswersTo(GetBlock(db, hash, number, FailBlock),
                            "BlockRequest", BlockAnswers) :
         Finish("GetBlock", <<hash, number>>, GetBlock(db, hash, number, ans), <<ans>>)

NextBody ==
  \/ CallGetBodyRLP
  \/ CallGetBody
  \/ CallGetBlock
  \/ Return

SpecBody == InitBody /\ [][NextBody]_vars

(***************************************************************************)
(* Receipts and logs: stores that hold, for one block, its header (or      *)
(* not), its body (or not) and its receipts (or not, derived or not).      *)
(***************************************************************************)
FailReceipts == [err |-> ErrRemote, Receipts |-> NilReceipts]

ReceiptDbs ==
  {[EmptyDb EXCEPT !.headers = hs, !.bodies = b, !.receipts = rs] :
     hs \in {{}} \cup {{k} : k \in Keys},
     b \in {<<>>} \cup UNION {[{k} -> RawValues] : k \in Keys},
     rs \in {<<>>} \cup UNION {[{k} -> {SomeReceipts(l) : l \in ReceiptLists}] : k \in Keys}}

InitReceipts ==
  /\ db \in {d \in ReceiptDbs :
               Cardinality(d.headers \cup DOMAIN d.bodies \cup DOMAIN d.receipts) <= 1}
  /\ indexer = NoIndexer
  /\ call = NoCall
  /\ lastWrite = NoWrite
  /\ NoConcurrency
  /\ NoMemoryDb

CallGetBlockReceipts ==
  /\ Idle
  /\ \E hash \in NzHashes, number \in Numbers :
       \E ansReceipts \in AnswersTo(GetBlockReceipts(db, hash, number, FailReceipts, FailBlock),
                                    "ReceiptsRequest", ReceiptsAnswers) :
         \E ansBody \in AnswersTo(GetBlockReceipts(db, hash, number, ansReceipts, FailBlock),
                                  "BlockRequest", BlockAnswers) :
           Finish("GetBlockReceipts", <<hash, number>>,
                  GetBlockReceipts(db, hash, number, ansReceipts, ansBody),
                  <<ansReceipts, ansBody>>)

CallGetBlockLogs ==
  /\ Idle
  /\ \E hash \in NzHashes, number \in Numbers :
       \E ansReceipts \in AnswersTo(GetBlockLogs(db, hash, number, FailReceipts, FailBlock),
                                    "ReceiptsRequest", ReceiptsAnswers) :
         \E ansBody \in AnswersTo(GetBlockLogs(db, hash, number, ansReceipts, FailBlock),
                                  "BlockRequest", BlockAnswers) :
           Finish("GetBlockLogs", <<hash, number>>,
                  GetBlockLogs(db, hash, number, ansReceipts, ansBody),
                  <<ansReceipts, ansBody>>)

CallGetUntrustedBlockLogs ==
  /\ Idle
  /\ \E hash \in NzHashes, number \in Numbers :
       \E ansReceipts \in AnswersTo(GetUntrustedBlockLogs(db, <<hash, number>>, FailReceipts),
                                    "ReceiptsRequest", ReceiptsAnswers) :
         Finish("GetUntrustedBlockLogs", <<hash, number>>,
                GetUntrustedBlockLogs(db, <<hash, number>>, ansReceipts),
                <<ansReceipts>>)

NextReceipts ==
  \/ CallGetBlockReceipts
  \/ CallGetBlockLogs
  \/ CallGetUntrustedBlockLogs
  \/ Return

SpecReceipts == InitReceipts /\ [][NextReceipts]_vars

(***************************************************************************)
(* Bloom bits: an indexer with up to MaxSections sections (or none at      *)
(* all), canonical hashes at the section heads, and the vectors of some    *)
(* sections stored under their current canonical head.                     *)
(***************************************************************************)
BitIdxs == {3}
SectionIdxs == 0..(MaxSections - 1)
HeadNumbers == {(section + 1) * BloomSize - 1 : section \in SectionIdxs}
SectionLists == UNION {[1..k -> SectionIdxs] : k \in 0..MaxList}
FailBloom == [err |-> ErrRemote, BloomBits |-> <<>>]

Indexers ==
  {NoIndexer}
    \cup UNION {{[present |-> TRUE, count |-> c, heads |-> hs] :
                   hs \in [0..(c - 1) -> NzHashes]} : c \in 0..MaxSections}

BloomDbs ==
  {[EmptyDb EXCEPT !.canonical = c,
                   !.bloomBits = {<<bit, section, c[(section + 1) * BloomSize - 1]>> :
                                    bit \in BitIdxs, section \in stored}] :
     c \in [HeadNumbers -> Hashes], stored \in SUBSET SectionIdxs}

InitBloom ==
  /\ db \in BloomDbs
  /\ indexer \in Indexers
  /\ call = NoCall
  /\ lastWrite = NoWrite
  /\ NoConcurrency
  /\ NoMemoryDb

CallGetBloomBits ==
  /\ Idle
  /\ \E bitIdx \in BitIdxs, sectionIdxList \in SectionLists :
       \E ans \in AnswersTo(GetBloomBits(db, indexer, bitIdx, sectionIdxList, FailBloom),
                            "BloomRequest", BloomAnswers) :
         Finish("GetBloomBits", <<bitIdx, sectionIdxList>>,
                GetBloomBits(db, indexer, bitIdx, sectionIdxList, ans), <<ans>>)

NextBloom ==
  \/ CallGetBloomBits
  \/ Return

SpecBloom == InitBloom /\ [][NextBloom]_vars

(***************************************************************************)
(* All retrieval operations on one store: the store holds one canonical    *)
(* block with its header and either its body or its receipts (or neither), *)
(* or it holds the bloom vectors of some sections, stored under the zero   *)
(* head, next to an indexer.                                               *)
(***************************************************************************)
BlockDbs(k) ==
  LET base == [EmptyDb EXCEPT !.canonical = [NoCanonical EXCEPT ![k[2]] = k[1]],
                              !.headers = {k}]
  IN {base}
       \cup {[base EXCEPT !.bodies = b] : b \in [{k} -> RawValues]}
       \cup {[base EXCEPT !.receipts = rs] :
               rs \in [{k} -> {SomeReceipts(l) : l \in ReceiptLists}]}

ZeroHeadBloomDbs ==
  {[EmptyDb EXCEPT !.bloomBits = {<<bit, section, ZeroHash>> :
                                    bit \in BitIdxs, section \in stored}] :
     stored \in SUBSET SectionIdxs}

RetrievalStores ==
  {[db |-> d, indexer |-> NoIndexer] : d \in UNION {BlockDbs(k) : k \in Keys}}
    \cup {[db |-> d, indexer |-> idx] : d \in ZeroHeadBloomDbs, idx \in Indexers}

InitRetrieval ==
  /\ \E s \in RetrievalStores : db = s.db /\ indexer = s.indexer
  /\ call = NoCall
  /\ lastWrite = NoWrite
  /\ NoConcurrency
  /\ NoMemoryDb

NextRetrieval ==
  \/ CallGetHeaderByNumber
  \/ CallGetCanonicalHash
  \/ CallGetBodyRLP
  \/ CallGetBody
  \/ CallGetBlock
  \/ CallGetBlockReceipts
  \/ CallGetBlockLogs
  \/ CallGetUntrustedBlockLogs
  \/ CallGetBloomBits
  \/ CallGetTransaction
  \/ Return

SpecRetrieval == InitRetrieval /\ [][NextRetrieval]_vars

(***************************************************************************)
(* Concurrent callers of GetBlockReceipts for one (hash, number).  A call  *)
(* is a sequence of steps, one per access to the local store or to the     *)
(* remote channel; callers[c].pc is the step caller c takes next.  The     *)
(* remote serves the block's data, which its hash determines: every        *)
(* successful fetch of the receipts (of the body) carries scenario.Receipts *)
(* (scenario.Block); a fetch may fail for one caller and not for another.  *)
(* A body or receipt set the store holds at the start is that data.        *)
(***************************************************************************)
CallerIds == {"a", "b"}

Caller(pc, receipts, header, data, ret, err, reqs, failed) ==
  [pc |-> pc, receipts |-> receipts, header |-> header, data |-> data,
   ret |-> ret, err |-> err, reqs |-> reqs, failed |-> failed]

NewCaller ==
  Caller("ReadRawReceipts", NilReceipts, NilHeader, NilRaw, NilReceipts, NoErr, <<>>, FALSE)

\* return receipts, err
Returns(c, receipts, err, failed) ==
  callers' = [callers EXCEPT ![c].pc = "done", ![c].ret = receipts, ![c].err = err,
                             ![c].failed = failed]

ConcurrentStarts ==
  {[key |-> k, Receipts |-> ra, Block |-> ba,
    start |-> [EmptyDb EXCEPT
                 !.headers = IF withHeader THEN {k} ELSE {},
                 !.bodies = IF withBody THEN [x \in {k} |-> ba.Rlp] ELSE <<>>,
                 !.receipts = IF withReceipts /\ ra.Receipts.present
                              THEN [x \in {k} |-> ra.Receipts] ELSE <<>>]] :
     k \in Keys,
     ra \in {a \in ReceiptsAnswers : a.err = NoErr},
     ba \in {a \in BlockAnswers : a.err = NoErr},
     withHeader \in BOOLEAN, withBody \in BOOLEAN, withReceipts \in BOOLEAN}

InitConcurrent ==
  /\ scenario \in ConcurrentStarts
  /\ db = scenario.start
  /\ callers = [c \in CallerIds |-> NewCaller]
  /\ indexer = NoIndexer
  /\ call = NoCall
  /\ lastWrite = NoWrite
  /\ NoMemoryDb

\* receipts := rawdb.ReadRawReceipts(odr.Database(), hash, number)
ReadLocalReceipts(c) ==
  /\ callers[c].pc = "ReadRawReceipts"
  /\ LET local == ReadRawReceipts(db, scenario.key[1], scenario.key[2]) IN
     callers' = [callers EXCEPT ![c].receipts = local,
                                ![c].pc = IF local.present THEN "CheckDerived"
                                          ELSE "FetchReceipts"]
  /\ UNCHANGED <<db, indexer, call, lastWrite, scenario, memVars>>

\* odr.FastRetrieve(ctx, &ReceiptsRequest{Hash: hash, Number: number})
FetchReceipts(c) ==
  /\ callers[c].pc = "FetchReceipts"
  /\ \E ans \in {FailReceipts, scenario.Receipts} :
       LET r == ReceiptsRequest(scenario.key[1], scenario.key[2], NilHeader, FALSE) IN
       IF ans.err # NoErr
       THEN callers' = [callers EXCEPT ![c].pc = "done", ![c].ret = NilReceipts,
                                       ![c].err = ans.err, ![c].failed = TRUE,
                                       ![c].reqs = Append(@, r)]
       ELSE callers' = [callers EXCEPT ![c].pc = "CheckDerived",
                                       ![c].receipts = ans.Receipts,
                                       ![c].reqs = Append(@, r)]
  /\ UNCHANGED <<db, indexer, call, lastWrite, scenario, memVars>>

\* if len(receipts) > 0 && receipts[0].TxHash == (common.Hash{})
CheckDerived(c) ==
  /\ callers[c].pc = "CheckDerived"
  /\ LET receipts == callers[c].receipts IN
     IF Len(receipts.list) > 0 /\ receipts.list[1].TxHash = ZeroHash
     THEN callers' = [callers EXCEPT ![c].pc = "ReadHeader"]
     ELSE Returns(c, receipts, NoErr, FALSE)
  /\ UNCHANGED <<db, indexer, call, lastWrite, scenario, memVars>>

\* GetBlock: header := rawdb.ReadHeader(odr.Database(), hash, number)
ReadLocalHeader(c) ==
  /\ callers[c].pc = "ReadHeader"
  /\ LET header == ReadHeader(db, scenario.key[1], scenario.key[2]) IN
     IF header = NilHeader
     THEN Returns(c, NilReceipts, ErrNoHeader, FALSE)
     ELSE callers' = [callers EXCEPT ![c].header = header, ![c].pc = "ReadBodyRLP"]
  /\ UNCHANGED <<db, indexer, call, lastWrite, scenario, memVars>>

\* GetBodyRLP: data := rawdb.ReadBodyRLP(odr.Database(), hash, number)
ReadLocalBody(c) ==
  /\ callers[c].pc = "ReadBodyRLP"
  /\ LET data == ReadBodyRLP(db, scenario.key[1], scenario.key[2]) IN
     callers' = [callers EXCEPT ![c].data = data,
                                ![c].pc = IF data # NilRaw THEN "Derive" ELSE "FetchBody"]
  /\ UNCHANGED <<db, indexer, call, lastWrite, scenario, memVars>>

\* GetBodyRLP: odr.FastRetrieve(ctx, &BlockRequest{Hash: hash, Number: number})
FetchBody(c) ==
  /\ callers[c].pc = "FetchBody"
  /\ \E ans \in {FailBlock, scenario.Block} :
       LET r == BlockRequest(scenario.key[1], scenario.key[2]) IN
       IF ans.err # NoErr
       THEN callers' = [callers EXCEPT ![c].pc = "done", ![c].ret = NilReceipts,
                                       ![c].err = ans.err, ![c].failed = TRUE,
                                       ![c].reqs = Append(@, r)]
       ELSE callers' = [callers EXCEPT ![c].pc = "Derive", ![c].data = ans.Rlp,
                                       ![c].reqs = Append(@, r)]
  /\ UNCHANGED <<db, indexer, call, lastWrite, scenario, memVars>>

\* Mutant: the receipts are written as they were obtained, the derived set is
\* only returned.
DeriveAndWrite_WritesObtained(c) ==
  /\ callers[c].pc = "Derive"
  /\ LET dec == DecodeBody(callers[c].data)
         dv == DeriveFields(callers[c].receipts.list, HeaderHash(callers[c].header),
                            HeaderNumber(callers[c].header), dec.txs)
     IN
     IF dec.err # NoErr
     THEN Returns(c, NilReceipts, dec.err, FALSE) /\ UNCHANGED db
     ELSE IF dv.err # NoErr
     THEN Returns(c, NilReceipts, dv.err, FALSE) /\ UNCHANGED db
     ELSE /\ db' = WriteReceipts(db, scenario.key[1], scenario.key[2],
                                 callers[c].receipts.list)
          /\ Returns(c, SomeReceipts(dv.receipts), NoErr, FALSE)
  /\ UNCHANGED <<indexer, call, lastWrite, scenario, memVars>>

\* The steps on data the caller holds, up to the write and the return:
\* rlp.Decode of the body, receipts.DeriveFields, rawdb.WriteReceipts
DeriveAndWrite(c) ==
  /\ callers[c].pc = "Derive"
  /\ LET dec == DecodeBody(callers[c].data)
         dv == DeriveFields(callers[c].receipts.list, HeaderHash(callers[c].header),
                            HeaderNumber(callers[c].header), dec.txs)
     IN
     IF dec.err # NoErr
     THEN Returns(c, NilReceipts, dec.err, FALSE) /\ UNCHANGED db
     ELSE IF dv.err # NoErr
     THEN Returns(c, NilReceipts, dv.err, FALSE) /\ UNCHANGED db
     ELSE /\ db' = WriteReceipts(db, scenario.key[1], scenario.key[2], dv.receipts)
          /\ Returns(c, SomeReceipts(dv.receipts), NoErr, FALSE)
  /\ UNCHANGED <<indexer, call, lastWrite, scenario, memVars>>

NextConcurrent ==
  \E c \in CallerIds :
    \/ ReadLocalReceipts(c)
    \/ FetchReceipts(c)
    \/ CheckDerived(c)
    \/ ReadLocalHeader(c)
    \/ ReadLocalBody(c)
    \/ FetchBody(c)
    \/ DeriveAndWrite(c)

SpecConcurrent == InitConcurrent /\ [][NextConcurrent]_vars

(***************************************************************************)
(* MemoryDatabase (package memorydb): a map from keys to values behind a   *)
(* lock, nil once the database is closed, and one memoryBatch on it.       *)
(* mdb = [nil, entries] is MemoryDatabase.db; batch = [writes, size] is    *)
(* the memoryBatch.  A method of the database takes the lock, runs and     *)
(* releases it in one step; it waits while the lock is held.               *)
(***************************************************************************)
MaxBatch == 2

errMemorydbClosed == "database closed"
errMemorydbNotFound == "not found"

\* Keys are byte strings; one is a proper prefix of no other, and their
\* bytewise order differs from their order by length.
MemKeys == {<<2>>, <<1, 2>>}
\* Values are byte strings
MemValues == {<<1>>, <<2, 2>>}
NilValue == <<>>

\* db.db: the unallocated map of a closed database, or a map
NilMap == [nil |-> TRUE, entries |-> <<>>]
Map(entries) == [nil |-> FALSE, entries |-> entries]

\* func New() *MemoryDatabase
New == Map(<<>>)

\* func (db *MemoryDatabase) Close() error
Close(m) == [db |-> NilMap, err |-> NoErr]

\* func (db *MemoryDatabase) Has(key []byte) (bool, error)
Has(m, key) ==
  IF m.nil
  THEN [ret |-> FALSE, err |-> errMemorydbClosed]
  ELSE [ret |-> key \in DOMAIN m.entries, err |-> NoErr]

\* func (db *MemoryDatabase) Get(key []byte) ([]byte, error)
Get(m, key) ==
  IF m.nil
  THEN [ret |-> NilValue, err |-> errMemorydbClosed]
  ELSE IF key \in DOMAIN m.entries
  THEN [ret |-> m.entries[key], err |-> NoErr]
  ELSE [ret |-> NilValue, err |-> errMemorydbNotFound]

\* db.db[string(key)] = value on an allocated map
MapStore(entries, key, value) ==
  [k \in (DOMAIN entries) \cup {key} |-> IF k = key THEN value ELSE entries[k]]

\* delete(db.db, string(key)) on an allocated map
MapDelete(entries, key) == [k \in (DOMAIN entries) \ {key} |-> entries[k]]

\* func (db *MemoryDatabase) Put(key []byte, value []byte) error
Put(m, key, value) ==
  IF m.nil
  THEN [db |-> m, err |-> errMemorydbClosed]
  ELSE [db |-> Map(MapStore(m.entries, key, value)), err |-> NoErr]

\* func (db *MemoryDatabase) Delete(key []byte) error
Delete(m, key) ==
  IF m.nil
  THEN [db |-> m, err |-> errMemorydbClosed]
  ELSE [db |-> Map(MapDelete(m.entries, key)), err |-> NoErr]

\* keyvalue: a key-value tuple tagged with a deletion field
KeyValue(key, value, delete) == [key |-> key, value |-> value, delete |-> delete]

\* func (db *MemoryDatabase) NewBatch() etruedb.Batch
NewBatch == [writes |-> <<>>, size |-> 0]

\* func (b *memoryBatch) Put(key, value []byte) error
BatchPut(b, key, value) ==
  [batch |-> [writes |-> Append(b.writes, KeyValue(key, value, FALSE)),
              size |-> b.size + Len(value)],
   err |-> NoErr]

\* func (b *memoryBatch) Delete(key []byte) error
BatchDelete(b, key) ==
  [batch |-> [writes |-> Append(b.writes, KeyValue(key, NilValue, TRUE)),
              size |-> b.size + 1],
   err |-> NoErr]

\* func (b *memoryBatch) Reset()
BatchReset(b) == [writes |-> <<>>, size |-> 0]

\* The loop of memoryBatch.Write from entry i on.  The map is not checked for
\* nil: delete on a nil map does nothing, an assignment to an entry of a nil
\* map panics.
RECURSIVE WriteLoop(_, _, _)
WriteLoop(m, writes, i) ==
  IF i > Len(writes)
  THEN [db |-> m, err |-> NoErr, panic |-> FALSE]
  ELSE IF writes[i].delete
  THEN WriteLoop(IF m.nil THEN m ELSE Map(MapDelete(m.entries, writes[i].key)),
                 writes, i + 1)
  ELSE IF m.nil
  THEN [db |-> m, err |-> NoErr, panic |-> TRUE]
  ELSE WriteLoop(Map(MapStore(m.entries, writes[i].key, writes[i].value)), writes, i + 1)

\* Mutant: the queued deletions are not applied.
BatchWrite_SkipsDeletes(m, b) ==
  WriteLoop(m, SelectSeq(b.writes, LAMBDA kv : ~kv.delete), 1)

\* func (b *memoryBatch) Write() error
BatchWrite(m, b) == WriteLoop(m, b.writes, 1)

\* db.lock, free or held by the method named
Unlocked == "unlocked"
\* No memoryBatch.Write in progress, no memoryIterator created
NoWriter == [pc |-> "idle", i |-> 0]
NoIterator == [created |-> FALSE]

MemCall(op, args, ret, err, panic) ==
  [op |-> op, args |-> args, ret |-> ret, err |-> err, panic |-> panic]

InitMemory ==
  /\ mdb = New
  /\ batch = NewBatch
  /\ call = NoCall
  /\ db = EmptyDb
  /\ indexer = NoIndexer
  /\ lastWrite = NoWrite
  /\ NoConcurrency
  /\ lock = Unlocked
  /\ writer = NoWriter
  /\ it = NoIterator

CallClose ==
  /\ lock = Unlocked
  /\ mdb' = Close(mdb).db
  /\ call' = MemCall("Close", <<>>, <<>>, Close(mdb).err, FALSE)
  /\ UNCHANGED <<batch, db, indexer, lastWrite, concVars, lock, writer, it>>

CallHas ==
  /\ lock = Unlocked
  /\ \E key \in MemKeys :
       call' = MemCall("Has", <<key>>, Has(mdb, key).ret, Has(mdb, key).err, FALSE)
  /\ UNCHANGED <<mdb, batch, db, indexer, lastWrite, concVars, lock, writer, it>>

CallGet ==
  /\ lock = Unlocked
  /\ \E key \in MemKeys :
       call' = MemCall("Get", <<key>>, Get(mdb, key).ret, Get(mdb, key).err, FALSE)
  /\ UNCHANGED <<mdb, batch, db, indexer, lastWrite, concVars, lock, writer, it>>

CallPut ==
  /\ lock = Unlocked
  /\ \E key \in MemKeys, value \in MemValues :
       /\ mdb' = Put(mdb, key, value).db
       /\ call' = MemCall("Put", <<key, value>>, <<>>, Put(mdb, key, value).err, FALSE)
  /\ UNCHANGED <<batch, db, indexer, lastWrite, concVars, lock, writer, it>>

CallDelete ==
  /\ lock = Unlocked
  /\ \E key \in MemKeys :
       /\ mdb' = Delete(mdb, key).db
       /\ call' = MemCall("Delete", <<key>>, <<>>, Delete(mdb, key).err, FALSE)
  /\ UNCHANGED <<batch, db, indexer, lastWrite, concVars, lock, writer, it>>

CallNewBatch ==
  /\ batch' = NewBatch
  /\ call' = MemCall("NewBatch", <<>>, <<>>, NoErr, FALSE)
  /\ UNCHANGED <<mdb, db, indexer, lastWrite, concVars, lock, writer, it>>

CallBatchPut ==
  /\ Len(batch.writes) < MaxBatch
  /\ \E key \in MemKeys, value \in MemValues :
       /\ batch' = BatchPut(batch, key, value).batch
       /\ call' = MemCall("BatchPut", <<key, value>>, <<>>,
                          BatchPut(batch, key, value).err, FALSE)
  /\ UNCHANGED <<mdb, db, indexer, lastWrite, concVars, lock, writer, it>>

CallBatchDelete ==
  /\ Len(batch.writes) < MaxBatch
  /\ \E key \in MemKeys :
       /\ batch' = BatchDelete(batch, key).batch
       /\ call' = MemCall("BatchDelete", <<key>>, <<>>, BatchDelete(batch, key).err, FALSE)
  /\ UNCHANGED <<mdb, db, indexer, lastWrite, concVars, lock, writer, it>>

CallBatchWrite ==
  /\ mdb' = BatchWrite(mdb, batch).db
  /\ call' = MemCall("BatchWrite", <<>>, <<>>, BatchWrite(mdb, batch).err,
                     BatchWrite(mdb, batch).panic)
  /\ UNCHANGED <<batch, db, indexer, lastWrite, concVars, lock, writer, it>>

CallBatchReset ==
  /\ batch' = BatchReset(batch)
  /\ call' = MemCall("BatchReset", <<>>, <<>>, NoErr, FALSE)
  /\ UNCHANGED <<mdb, db, indexer, lastWrite, concVars, lock, writer, it>>

NextMemory ==
  \/ CallClose
  \/ CallHas
  \/ CallGet
  \/ CallPut
  \/ CallDelete
  \/ CallNewBatch
  \/ CallBatchPut
  \/ CallBatchDelete
  \/ CallBatchWrite
  \/ CallBatchReset

SpecMemory == InitMemory /\ [][NextMemory]_vars

(***************************************************************************)
(* memoryIterator: a copy of the keys with a prefix, sorted, and of their  *)
(* values.  No modelled method changes a stored byte string in place (Put  *)
(* stores a fresh copy, Delete drops the entry), so the values an iterator *)
(* shares with the map are values of the model.                            *)
(***************************************************************************)
\* strings.HasPrefix(key, pr)
HasPrefix(key, pr) == Len(pr) <= Len(key) /\ SubSeq(key, 1, Len(pr)) = pr

\* The order of sort.Strings: bytewise
RECURSIVE Less(_, _)
Less(a, b) ==
  IF a = <<>> THEN b # <<>>
  ELSE IF b = <<>> THEN FALSE
  ELSE IF Head(a) # Head(b) THEN Head(a) < Head(b)
  ELSE Less(Tail(a), Tail(b))

\* sort.Strings(keys), of keys collected from the map in any order
RECURSIVE SortStrings(_)
SortStrings(keys) ==
  IF keys = {} THEN <<>>
  ELSE LET first == CHOOSE k \in keys : \A o \in keys \ {k} : Less(k, o) IN
       <<first>> \o SortStrings(keys \ {first})

\* Mutant: the prefix is ignored, every key of the map is collected.
NewIteratorWithPrefix_AllKeys(m, prefix) ==
  LET keys == SortStrings(DOMAIN m.entries) IN
  [created |-> TRUE, inited |-> FALSE, keys |-> keys,
   values |-> [i \in DOMAIN keys |-> m.entries[keys[i]]]]

\* func (db *MemoryDatabase) NewIteratorWithPrefix(prefix []byte) etruedb.Iterator
\* The map is not checked for nil: a closed database has no keys.
NewIteratorWithPrefix(m, prefix) ==
  LET keys == SortStrings({key \in DOMAIN m.entries : HasPrefix(key, prefix)}) IN
  [created |-> TRUE, inited |-> FALSE, keys |-> keys,
   values |-> [i \in DOMAIN keys |-> m.entries[keys[i]]]]

\* func (it *memoryIterator) Next() bool
IteratorNext(i) ==
  IF ~i.inited
  THEN [it |-> [i EXCEPT !.inited = TRUE], ret |-> Len(i.keys) > 0]
  ELSE LET n == IF Len(i.keys) > 0
                THEN [i EXCEPT !.keys = Tail(@), !.values = Tail(@)]
                ELSE i
       IN [it |-> n, ret |-> Len(n.keys) > 0]

\* func (it *memoryIterator) Key() []byte
IteratorKey(i) == IF Len(i.keys) > 0 THEN i.keys[1] ELSE NilValue

\* func (it *memoryIterator) Value() []byte
IteratorValue(i) == IF Len(i.values) > 0 THEN i.values[1] ELSE NilValue

\* The prefixes asked for
Prefixes == {<<>>, <<1>>, <<2>>}

CallNewIteratorWithPrefix ==
  /\ lock = Unlocked
  /\ \E prefix \in Prefixes :
       /\ it' = NewIteratorWithPrefix(mdb, prefix)
       /\ call' = MemCall("NewIteratorWithPrefix", <<prefix>>, <<>>, NoErr, FALSE)
  /\ UNCHANGED <<mdb, batch, lock, writer, db, indexer, lastWrite, concVars>>

(***************************************************************************)
(* memoryBatch.Write step by step, while other callers use the database:   *)
(* the lock is taken, the queued entries are applied one per step, the     *)
(* deferred unlock runs at the return or at the panic.                     *)
(***************************************************************************)
\* The queues of the batch that is written
BatchQueues ==
  LET entries == {KeyValue(key, value, FALSE) : key \in MemKeys, value \in MemValues}
                   \cup {KeyValue(key, NilValue, TRUE) : key \in MemKeys}
  IN UNION {[1..n -> entries] : n \in 1..MaxBatch}

InitAtomic ==
  /\ mdb \in {New} \cup {Map(MapStore(<<>>, key, <<1>>)) : key \in MemKeys}
  /\ \E writes \in BatchQueues : batch = [writes |-> writes, size |-> 0]
  /\ lock = Unlocked
  /\ writer = NoWriter
  /\ it = NoIterator
  /\ call = NoCall
  /\ db = EmptyDb
  /\ indexer = NoIndexer
  /\ lastWrite = NoWrite
  /\ NoConcurrency

\* Mutant: Write does not take the lock.
WriteLock_NoLock ==
  /\ writer.pc = "idle"
  /\ writer' = [pc |-> "loop", i |-> 1]
  /\ UNCHANGED <<lock, mdb, batch, it, call, db, indexer, lastWrite, concVars>>

\* b.db.lock.Lock()
WriteLock ==
  /\ writer.pc = "idle"
  /\ lock = Unlocked
  /\ lock' = "Write"
  /\ writer' = [pc |-> "loop", i |-> 1]
  /\ UNCHANGED <<mdb, batch, it, call, db, indexer, lastWrite, concVars>>

\* One iteration of the loop over b.writes
WriteEntry ==
  /\ writer.pc = "loop"
  /\ writer.i <= Len(batch.writes)
  /\ LET step == WriteLoop(mdb, <<batch.writes[writer.i]>>, 1) IN
     /\ mdb' = step.db
     /\ writer' = IF step.panic THEN [pc |-> "panic", i |-> writer.i]
                  ELSE [writer EXCEPT !.i = @ + 1]
     /\ lock' = IF step.panic THEN Unlocked ELSE lock
  /\ UNCHANGED <<batch, it, call, db, indexer, lastWrite, concVars>>

\* return nil, and the deferred b.db.lock.Unlock()
WriteReturn ==
  /\ writer.pc = "loop"
  /\ writer.i > Len(batch.writes)
  /\ writer' = [writer EXCEPT !.pc = "done"]
  /\ lock' = Unlocked
  /\ UNCHANGED <<mdb, batch, it, call, db, indexer, lastWrite, concVars>>

NextAtomic ==
  \/ WriteLock
  \/ WriteEntry
  \/ WriteReturn
  \/ CallHas
  \/ CallGet
  \/ CallPut
  \/ CallDelete
  \/ CallClose
  \/ CallNewIteratorWithPrefix

SpecAtomic == InitAtomic /\ [][NextAtomic]_vars

(***************************************************************************)
(* A caller iterating: it := db.NewIteratorWithPrefix(prefix), then        *)
(* for it.Next() { it.Key(), it.Value() }, while the database is written.  *)
(* scenario = the map and the prefix at creation; callers = what the       *)
(* iterating caller got: the results of Next and the pairs read.           *)
(***************************************************************************)
MaxNexts == 4

\* The keys of the databases iterated over
IteratorKeys == MemKeys \cup {<<1>>}

InitIterator ==
  /\ \E present \in SUBSET IteratorKeys :
       \E entries \in [present -> MemValues] : mdb = Map(entries)
  /\ batch = NewBatch
  /\ lock = Unlocked
  /\ writer = NoWriter
  /\ it = NoIterator
  /\ call = NoCall
  /\ db = EmptyDb
  /\ indexer = NoIndexer
  /\ lastWrite = NoWrite
  /\ NoConcurrency

\* it := db.NewIteratorWithPrefix(prefix)
Iterate ==
  /\ lock = Unlocked
  /\ ~it.created
  /\ \E prefix \in Prefixes :
       /\ it' = NewIteratorWithPrefix(mdb, prefix)
       /\ scenario' = [entries |-> mdb.entries, prefix |-> prefix]
       /\ call' = MemCall("NewIteratorWithPrefix", <<prefix>>, <<>>, NoErr, FALSE)
  /\ callers' = [nexts |-> <<>>, yielded |-> <<>>]
  /\ UNCHANGED <<mdb, batch, lock, writer, db, indexer, lastWrite>>

\* it.Next(), and it.Key(), it.Value() when Next returned true
IterateNext ==
  /\ it.created
  /\ Len(callers.nexts) < MaxNexts
  /\ LET n == IteratorNext(it) IN
     /\ it' = n.it
     /\ callers' = [nexts |-> Append(callers.nexts, n.ret),
                    yielded |-> IF n.ret
                                THEN Append(callers.yielded,
                                            [key |-> IteratorKey(n.it),
                                             value |-> IteratorValue(n.it)])
                                ELSE callers.yielded]
     /\ call' = MemCall("Next", <<>>, n.ret, NoErr, FALSE)
  /\ UNCHANGED <<scenario, mdb, batch, lock, writer, db, indexer, lastWrite>>

NextIterator ==
  \/ Iterate
  \/ IterateNext
  \/ CallPut
  \/ CallDelete

SpecIterator == InitIterator /\ [][NextIterator]_vars

(***************************************************************************)
(* The trust-boundary reconciliation of GetBloomBits, one loop iteration   *)
(* per step.  call holds the local variables of the call in progress:      *)
(* bloomTrieCount, sectionHeadNum, sectionHead, canonicalHash, the number  *)
(* of iterations made, and pc, the place the call is at.                   *)
(***************************************************************************)
Reconciling(pc, bloomTrieCount, sectionHeadNum, sectionHead, canonicalHash, iterations) ==
  [op |-> "Reconcile", pc |-> pc, bloomTrieCount |-> bloomTrieCount,
   sectionHeadNum |-> sectionHeadNum, sectionHead |-> sectionHead,
   canonicalHash |-> canonicalHash, iterations |-> iterations]

InitReconcile ==
  /\ db \in BloomDbs
  /\ indexer \in Indexers
  /\ call = Reconciling("Sections", 0, 0, ZeroHash, ZeroHash, 0)
  /\ lastWrite = NoWrite
  /\ NoConcurrency
  /\ NoMemoryDb

\* if odr.BloomTrieIndexer() != nil { ... = odr.BloomTrieIndexer().Sections();
\* canonicalHash := rawdb.ReadCanonicalHash(db, sectionHeadNum)
ReadSections ==
  /\ call.pc = "Sections"
  /\ IF indexer.present
     THEN LET s == Sections(indexer) IN
          call' = Reconciling("for", s.count, s.headNum, s.head,
                              ReadCanonicalHash(db, s.headNum), 0)
     ELSE call' = [call EXCEPT !.pc = "scan"]
  /\ UNCHANGED <<db, indexer, lastWrite, concVars, memVars>>

\* for bloomTrieCount > 0 && canonicalHash != sectionHead &&
\*     canonicalHash != (common.Hash{})
LoopCondition(c) ==
  /\ c.bloomTrieCount > 0
  /\ c.canonicalHash # c.sectionHead
  /\ c.canonicalHash # ZeroHash

\* Mutant: the section head and the canonical hash are not read again after
\* the count is decreased.
LoopIteration_NoRefresh ==
  /\ call.pc = "for"
  /\ LoopCondition(call)
  /\ call' = [call EXCEPT !.bloomTrieCount = @ - 1, !.iterations = @ + 1]
  /\ UNCHANGED <<db, indexer, lastWrite, concVars, memVars>>

\* One iteration of the loop body
LoopIteration ==
  /\ call.pc = "for"
  /\ LoopCondition(call)
  /\ LET count == call.bloomTrieCount - 1 IN
     IF count > 0
     THEN LET num == count * BloomTrieSize - 1 IN
          call' = Reconciling("for", count, num, SectionHead(indexer, count - 1),
                              ReadCanonicalHash(db, num), call.iterations + 1)
     ELSE call' = [call EXCEPT !.bloomTrieCount = count, !.iterations = @ + 1]
  /\ UNCHANGED <<db, indexer, lastWrite, concVars, memVars>>

\* The loop condition fails: the call goes on to scan the sections
LoopExit ==
  /\ call.pc = "for"
  /\ ~LoopCondition(call)
  /\ call' = [call EXCEPT !.pc = "scan"]
  /\ UNCHANGED <<db, indexer, lastWrite, concVars, memVars>>

NextReconcile ==
  \/ ReadSections
  \/ LoopIteration
  \/ LoopExit

SpecReconcile == InitReconcile /\ [][NextReconcile]_vars

\* A call that is running keeps running: its next step is taken eventually.
FairReconcile == SpecReconcile /\ WF_vars(NextReconcile)

(***************************************************************************)
(* Claims                                                                  *)
(***************************************************************************)

\* C1: at every height with a non-zero canonical hash recorded in the local
\* store, GetHeaderByNumber returns the header stored under (that hash, that
\* height) with no error; if no header is stored under that key the call
\* panics: it returns neither a value nor a silent miss.
C1_HeaderByNumber ==
  call.op = "GetHeaderByNumber" =>
    LET number == call.args[1] IN
    (number \in DOMAIN db.canonical /\ db.canonical[number] # ZeroHash) =>
      IF <<db.canonical[number], number>> \in db.headers
      THEN /\ ~call.panic
           /\ call.err = NoErr
           /\ call.ret = <<db.canonical[number], number>>
      ELSE call.panic

C1_Witness ==
  /\ call.op = "GetHeaderByNumber"
  /\ db.canonical[call.args[1]] # ZeroHash
  /\ ~call.panic
  /\ call.ret = <<db.canonical[call.args[1]], call.args[1]>>

\* The canonical header the local store holds at a height, NilHeader if none
LocalCanonicalHeader(d, number) ==
  IF number \in DOMAIN d.canonical /\ d.canonical[number] # ZeroHash
       /\ <<d.canonical[number], number>> \in d.headers
  THEN <<d.canonical[number], number>>
  ELSE NilHeader

\* The body payload GetBody resolves for a key: the stored one, else the
\* remote answer
ResolvedRaw(d, hash, number, ans) ==
  IF <<hash, number>> \in DOMAIN d.bodies THEN d.bodies[<<hash, number>>] ELSE ans.Rlp

\* C2: whenever GetTransaction returns a transaction, it hashes to the queried
\* hash, it is the element at the returned index of the body resolved for the
\* returned (block hash, height), the returned block hash is the hash of the
\* locally canonical header at the returned height, and the returned
\* position is the locator's.
C2_NoWrongTransaction ==
  (call.op = "GetTransaction" /\ ~call.panic /\ call.ret.tx # NilTx) =>
    LET ret == call.ret
        raw == ResolvedRaw(db, ret.blockHash, ret.blockIndex, call.ans[2])
    IN
    /\ TxHash(ret.tx) = call.args[1]
    /\ raw.kind = "body"
    /\ ret.index < Len(raw.txs)
    /\ raw.txs[ret.index + 1] = ret.tx
    /\ LocalCanonicalHeader(db, ret.blockIndex) # NilHeader
    /\ ret.blockHash = HeaderHash(LocalCanonicalHeader(db, ret.blockIndex))
    /\ Lookup(ret.blockHash, ret.blockIndex, ret.index) = call.ans[1].Lookup

\* C3: when the remote reports the transaction as included at a locator whose
\* block hash differs from the hash of the locally canonical header at the
\* locator's height, GetTransaction returns no transaction and reports an
\* error.
C3_MismatchIsError ==
  (/\ call.op = "GetTransaction"
   /\ call.ans[1].err = NoErr
   /\ call.ans[1].Status = TxStatusIncluded
   /\ LocalCanonicalHeader(db, call.ans[1].Lookup.BlockIndex) # NilHeader
   /\ HeaderHash(LocalCanonicalHeader(db, call.ans[1].Lookup.BlockIndex))
        # call.ans[1].Lookup.BlockHash)
  => (~call.panic /\ call.ret.tx = NilTx /\ call.err # NoErr)

\* C4: GetUntrustedBlockLogs never writes to the local store: whatever the
\* header and the remote answer, the store after the call is the store before
\* it, and receipts that were a local miss before the call still are.
C4_UntrustedNeverWrites ==
  [][call'.op = "GetUntrustedBlockLogs" =>
       /\ db' = db
       /\ (~ReadRawReceipts(db, call'.args[1], call'.args[2]).present
             => ~ReadRawReceipts(db', call'.args[1], call'.args[2]).present)]_vars

C4_Witness ==
  /\ call.op = "GetUntrustedBlockLogs"
  /\ call.ans[1].err = NoErr
  /\ Len(call.ans[1].Receipts.list) > 0
  /\ call.ret = LogsOf(call.ans[1].Receipts)
  /\ <<call.args[1], call.args[2]>> \notin DOMAIN db.receipts

\* A remote answer with a non-empty receipt set none of whose receipts has the
\* derived linkage
UnderivedAnswer(ans) ==
  /\ ans.err = NoErr
  /\ Len(ans.Receipts.list) > 0
  /\ \A i \in DOMAIN ans.Receipts.list : ans.Receipts.list[i].TxHash = ZeroHash

\* ret holds the receipts of sent, in order, each with a linkage
Linked(ret, sent) ==
  /\ ret.present
  /\ Len(ret.list) = Len(sent.list)
  /\ \A i \in DOMAIN ret.list :
       /\ ret.list[i].TxHash # ZeroHash
       /\ ret.list[i].Logs = sent.list[i].Logs

\* C5 (as claimed): from an empty local store, GetBlockReceipts for (H, n),
\* with the remote returning a non-empty receipt set lacking the linkage,
\* returns those receipts with the linkage populated, and a direct local
\* lookup at (H, n) then returns the same derived receipts.
C5_FromEmptyStore ==
  [][(/\ db = EmptyDb
      /\ call'.op = "GetBlockReceipts"
      /\ UnderivedAnswer(call'.ans[1]))
     => (/\ call'.err = NoErr
         /\ Linked(call'.ret, call'.ans[1].Receipts)
         /\ ReadRawReceipts(db', call'.args[1], call'.args[2]) = call'.ret)]_vars

\* C5 (amended): from a local store that holds nothing but the header of
\* (H, n), GetBlockReceipts for (H, n), with the remote returning a non-empty
\* receipt set lacking the linkage and then a body with as many transactions
\* as there are receipts, returns those receipts linked to the body's
\* transactions, and a direct local lookup at (H, n) then returns the same
\* derived receipts.
C5_FromStoreWithHeader ==
  [][(/\ call'.op = "GetBlockReceipts"
      /\ db = [EmptyDb EXCEPT !.headers = {<<call'.args[1], call'.args[2]>>}]
      /\ UnderivedAnswer(call'.ans[1])
      /\ call'.ans[2].err = NoErr
      /\ call'.ans[2].Rlp.kind = "body"
      /\ Len(call'.ans[2].Rlp.txs) = Len(call'.ans[1].Receipts.list))
     => (/\ call'.err = NoErr
         /\ Linked(call'.ret, call'.ans[1].Receipts)
         /\ \A i \in DOMAIN call'.ret.list :
              call'.ret.list[i].TxHash = TxHash(call'.ans[2].Rlp.txs[i])
         /\ ReadRawReceipts(db', call'.args[1], call'.args[2]) = call'.ret)]_vars

C5_Witness ==
  /\ call.op = "GetBlockReceipts"
  /\ call.err = NoErr
  /\ UnderivedAnswer(call.ans[1])
  /\ call.ans[2].err = NoErr
  /\ Len(call.ret.list) = 2
  /\ db.headers = {<<call.args[1], call.args[2]>>}
  /\ DOMAIN db.bodies = {}
  /\ DOMAIN db.receipts = {<<call.args[1], call.args[2]>>}
  /\ db.receipts[<<call.args[1], call.args[2]>>] = call.ret
  /\ \A i \in DOMAIN call.ret.list : call.ret.list[i].TxHash # ZeroHash

\* The receipt set GetBlockReceipts obtains: the stored one, else the one the
\* remote sent
Obtained(d, hash, number, ans) ==
  IF <<hash, number>> \in DOMAIN d.receipts
  THEN d.receipts[<<hash, number>>]
  ELSE IF ans.err = NoErr THEN ans.Receipts ELSE NilReceipts

\* C6: whenever GetBlockReceipts finds the first receipt of the obtained set
\* without linkage and returns successfully, it returns the fully derived
\* set (every receipt linked to the transaction at its position of the
\* resolved body) and has written exactly that set under (hash, number); if
\* resolving the block or deriving fails, it returns the error and writes
\* nothing.
C6_EnrichmentWritesDerivedSet ==
  [][(/\ call'.op = "GetBlockReceipts"
      /\ Len(Obtained(db, call'.args[1], call'.args[2], call'.ans[1]).list) > 0
      /\ Obtained(db, call'.args[1], call'.args[2], call'.ans[1]).list[1].TxHash = ZeroHash)
     => LET key == <<call'.args[1], call'.args[2]>>
            got == Obtained(db, key[1], key[2], call'.ans[1])
            raw == ResolvedRaw(db, key[1], key[2], call'.ans[2])
        IN
        IF call'.err = NoErr
        THEN /\ Len(call'.ret.list) = Len(got.list)
             /\ \A i \in DOMAIN got.list :
                  /\ call'.ret.list[i].TxHash = TxHash(raw.txs[i])
                  /\ call'.ret.list[i].TxHash # ZeroHash
                  /\ call'.ret.list[i].Logs = got.list[i].Logs
             /\ DOMAIN db'.receipts = DOMAIN db.receipts \cup {key}
             /\ db'.receipts[key] = call'.ret
             /\ \A k \in DOMAIN db.receipts \ {key} : db'.receipts[k] = db.receipts[k]
             /\ [db' EXCEPT !.receipts = db.receipts] = db
             /\ call'.writes = <<ReceiptWrite(key[1], key[2], call'.ret.list)>>
        ELSE /\ call'.err \in {ErrNoHeader, ErrDecode, ErrDerive} \cup RemoteErrs
             /\ call'.ret = NilReceipts
             /\ call'.writes = <<>>
             /\ db' = db]_vars

C6_Witness ==
  /\ call.op = "GetBlockReceipts"
  /\ call.err = NoErr
  /\ call.reqs = <<>>
  /\ call.writes # <<>>
  /\ db.receipts[<<call.args[1], call.args[2]>>] = call.ret
  /\ \A i \in DOMAIN call.ret.list : call.ret.list[i].TxHash # ZeroHash

\* C7: once a call has enriched the receipts of (hash, number), a later
\* GetBlockReceipts for the same (hash, number) returns the same derived set
\* and does not derive again: it writes nothing and leaves the store as it is.
C7_EnrichmentIdempotent ==
  [][(/\ lastWrite.present
      /\ call'.op = "GetBlockReceipts"
      /\ <<call'.args[1], call'.args[2]>> = lastWrite.key)
     => (/\ call'.err = NoErr
         /\ call'.ret = SomeReceipts(lastWrite.receipts)
         /\ call'.writes = <<>>
         /\ call'.reqs = <<>>
         /\ db' = db)]_vars

C7_Witness ==
  /\ call.op = "GetBlockReceipts"
  /\ lastWrite.present
  /\ <<call.args[1], call.args[2]>> = lastWrite.key
  /\ call.writes = <<>>
  /\ call.err = NoErr
  /\ call.ret = SomeReceipts(lastWrite.receipts)

\* The canonical hash stored at the head height of the first count sections
CanonicalAtHead(d, count) == ReadCanonicalHash(d, count * BloomTrieSize - 1)

\* The indexer reports a count whose section head differs from the canonical
\* hash stored at the section head height: the chain was reorganized.
StaleBoundary ==
  /\ indexer.present
  /\ indexer.count > 0
  /\ CanonicalAtHead(db, indexer.count) # ZeroHash
  /\ CanonicalAtHead(db, indexer.count) # indexer.heads[indexer.count - 1]

\* C8 (as claimed): from a stale boundary C, the reconciliation of GetBloomBits
\* ends with a count C' < C such that C' = 0 or the indexer's section head at
\* C' - 1 equals the canonical hash stored at height C' * BloomTrieSize - 1.
C8_RollbackToMatchingHead ==
  (call.op = "GetBloomBits" /\ StaleBoundary) =>
    LET count == call.local.trust.bloomTrieCount IN
    /\ count < indexer.count
    /\ \/ count = 0
       \/ indexer.heads[count - 1] = CanonicalAtHead(db, count)

\* C8 (amended): from a stale boundary C, the reconciliation ends with a count
\* C' < C such that C' = 0, or the indexer's section head at C' - 1 equals the
\* canonical hash stored at height C' * BloomTrieSize - 1, or no canonical
\* hash is stored at that height.
C8_RollbackToMatchingOrUnknownHead ==
  (call.op = "GetBloomBits" /\ StaleBoundary) =>
    LET count == call.local.trust.bloomTrieCount IN
    /\ count < indexer.count
    /\ \/ count = 0
       \/ indexer.heads[count - 1] = CanonicalAtHead(db, count)
       \/ CanonicalAtHead(db, count) = ZeroHash

C8_Witness ==
  /\ call.op = "GetBloomBits"
  /\ StaleBoundary
  /\ call.local.trust.bloomTrieCount = indexer.count - 1
  /\ call.local.trust.bloomTrieCount > 0
  /\ indexer.heads[indexer.count - 2] = CanonicalAtHead(db, indexer.count - 1)

\* The requested section at position i is a local miss
LocalMiss(i) ==
  LET section == call.args[2][i] IN
  <<call.args[1], section, ReadCanonicalHash(db, (section + 1) * BloomSize - 1)>>
    \notin db.bloomBits

\* C9: if a requested section is a local miss at or beyond the reconciled
\* trusted count, GetBloomBits returns ErrNoTrustedBloomTrie with no result
\* and submits no request, not even for the misses below the count.
C9_MissBeyondTrustIsFatal ==
  (/\ call.op = "GetBloomBits"
   /\ \E i \in DOMAIN call.args[2] :
        LocalMiss(i) /\ call.args[2][i] >= call.local.trust.bloomTrieCount)
  => (/\ call.err = ErrNoTrustedBloomTrie
      /\ call.ret = NilBloomBits
      /\ call.reqs = <<>>)

C9_Witness ==
  /\ call.op = "GetBloomBits"
  /\ call.err = ErrNoTrustedBloomTrie
  /\ Len(call.args[2]) = 2
  /\ LocalMiss(1) /\ call.args[2][1] < call.local.trust.bloomTrieCount
  /\ LocalMiss(2) /\ call.args[2][2] = call.local.trust.bloomTrieCount

\* The locally missed sections, in request order
MissedSections ==
  LET RECURSIVE From(_)
      From(i) ==
        IF i > Len(call.args[2]) THEN <<>>
        ELSE (IF LocalMiss(i) THEN <<call.args[2][i]>> ELSE <<>>) \o From(i + 1)
  IN From(1)

\* C10: GetBloomBits submits at most one request per call: none when every
\* requested section is a local hit, and exactly one when there are misses
\* and all of them lie below the reconciled trusted count; the section list
\* of a request is the locally missed sections, in request order, each below
\* the trusted count.
C10_OneRequestForTheMisses ==
  call.op = "GetBloomBits" =>
    LET missed == MissedSections
        count == call.local.trust.bloomTrieCount
    IN
    /\ Len(call.reqs) <= 1
    /\ missed = <<>> => call.reqs = <<>>
    /\ (missed # <<>> /\ \A k \in DOMAIN missed : missed[k] < count) => Len(call.reqs) = 1
    /\ \A j \in DOMAIN call.reqs :
         /\ call.reqs[j].kind = "BloomRequest"
         /\ call.reqs[j].SectionIndexList = missed
         /\ \A k \in DOMAIN missed : missed[k] < count

C10_Witness ==
  /\ call.op = "GetBloomBits"
  /\ Len(call.args[2]) = 2
  /\ ~LocalMiss(1)
  /\ LocalMiss(2)
  /\ call.local.trust.bloomTrieCount = 2
  /\ Len(call.reqs) = 1
  /\ call.reqs[1].SectionIndexList = <<call.args[2][2]>>


\* The number of locally missed sections among the first i requested ones
MissRank(i) == Cardinality({j \in 1..i : LocalMiss(j)})

\* C11: on success GetBloomBits returns one slot per requested section, in
\* request order: the slot of a local hit holds the vector stored locally
\* under (bit, section, canonical head of the section), the slot of the k-th
\* missed section holds the k-th vector of the remote answer, and no slot is
\* left unfilled.
C11_ScatterMerge ==
  (call.op = "GetBloomBits" /\ ~call.panic /\ call.err = NoErr) =>
    LET sections == call.args[2] IN
    /\ ~call.ret.nil
    /\ Len(call.ret.bits) = Len(sections)
    /\ \A i \in DOMAIN sections :
         /\ call.ret.bits[i] # NilBits
         /\ call.ret.bits[i] =
              IF LocalMiss(i)
              THEN call.ans[1].BloomBits[MissRank(i)]
              ELSE LocalBits(call.args[1], sections[i],
                             ReadCanonicalHash(db, (sections[i] + 1) * BloomSize - 1))

C11_Witness ==
  /\ call.op = "GetBloomBits"
  /\ call.err = NoErr
  /\ Len(call.args[2]) = 2
  /\ ~LocalMiss(1)
  /\ LocalMiss(2)
  /\ call.ret.bits[1].src = "local"
  /\ call.ret.bits[2] = call.ans[1].BloomBits[1]

\* C12: GetBodyRLP is local-first: a body stored under (hash, number) is
\* returned as stored and no request is submitted; on a local miss exactly one
\* BlockRequest for that (hash, number) is submitted and, when the remote
\* answers, the payload of the answer is returned as it is.
C12_BodyLocalFirst ==
  [][call'.op = "GetBodyRLP" =>
       LET key == <<call'.args[1], call'.args[2]>> IN
       IF key \in DOMAIN db.bodies
       THEN /\ call'.ret = db.bodies[key]
            /\ call'.err = NoErr
            /\ call'.reqs = <<>>
       ELSE /\ call'.reqs = <<BlockRequest(key[1], key[2])>>
            /\ call'.ans[1].err = NoErr =>
                 (call'.err = NoErr /\ call'.ret = call'.ans[1].Rlp)]_vars

C12_Witness ==
  /\ call.op = "GetBodyRLP"
  /\ <<call.args[1], call.args[2]>> \notin DOMAIN db.bodies
  /\ DOMAIN db.bodies # {}
  /\ Len(call.reqs) = 1
  /\ call.err = NoErr
  /\ call.ret = call.ans[1].Rlp
  /\ call.ret.kind = "body"
  /\ Len(call.ret.txs) = NumTx

\* C13: GetBlock with no header stored under (hash, number) returns
\* ErrNoHeader and no block, and submits no request, whether the body is
\* stored locally or would have to be fetched.
C13_NoHeaderNoRequest ==
  [][(/\ call'.op = "GetBlock"
      /\ <<call'.args[1], call'.args[2]>> \notin db.headers)
     => (/\ call'.err = ErrNoHeader
         /\ call'.ret = NilBlock
         /\ call'.reqs = <<>>
         /\ db' = db)]_vars

C13_Witness ==
  /\ call.op = "GetBlock"
  /\ <<call.args[1], call.args[2]>> \notin db.headers
  /\ <<call.args[1], call.args[2]>> \notin DOMAIN db.bodies
  /\ db.headers # {}
  /\ call.err = ErrNoHeader
  /\ call.reqs = <<>>

\* C14: GetHeaderByNumber and GetCanonicalHash are local-only: they submit no
\* request; at a height with no canonical hash recorded they return the
\* absence value (nil header, zero hash) with no error; GetCanonicalHash
\* returns the recorded canonical hash, which is non-zero exactly when one is
\* recorded.
C14_HeaderLookupsLocalOnly ==
  call.op \in {"GetHeaderByNumber", "GetCanonicalHash"} =>
    LET number == call.args[1]
        recorded == IF number \in DOMAIN db.canonical THEN db.canonical[number] ELSE ZeroHash
    IN
    /\ call.reqs = <<>>
    /\ recorded = ZeroHash =>
         /\ ~call.panic
         /\ call.err = NoErr
         /\ call.ret = IF call.op = "GetHeaderByNumber" THEN NilHeader ELSE ZeroHash
    /\ call.op = "GetCanonicalHash" =>
         /\ ~call.panic
         /\ call.err = NoErr
         /\ call.ret = recorded

C14_Witness ==
  /\ call.op = "GetCanonicalHash"
  /\ db.canonical[call.args[1]] = ZeroHash
  /\ \E h \in NzHashes : <<h, call.args[1]>> \in db.headers
  /\ call.ret = ZeroHash
  /\ call.err = NoErr
  /\ call.reqs = <<>>

\* The value an operation returns when it returns no result
NilResult(op) ==
  CASE op = "GetBodyRLP" -> NilRaw
    [] op = "GetBody" -> NilBody
    [] op = "GetBlock" -> NilBlock
    [] op = "GetBlockReceipts" -> NilReceipts
    [] op \in {"GetBlockLogs", "GetUntrustedBlockLogs"} -> NilLogs
    [] op = "GetBloomBits" -> NilBloomBits
    [] op = "GetTransaction" -> NilTxRet
    [] OTHER -> <<>>

\* The positions of the remote answers a call received that are failures
FailedAnswers(c) == {k \in DOMAIN c.ans : c.ans[k].err \in RemoteErrs}

\* C15: when a remote call of a retrieval operation fails, the operation
\* returns that error and no result, the failed request is the last one it
\* submitted, it has written nothing and the local store is as before.
C15_RemoteFailurePropagates ==
  [][(call'.op # "none" /\ FailedAnswers(call') # {}) =>
       LET k == CHOOSE j \in FailedAnswers(call') :
                  \A i \in FailedAnswers(call') : j <= i
       IN
       /\ ~call'.panic
       /\ call'.err = call'.ans[k].err
       /\ call'.ret = NilResult(call'.op)
       /\ Len(call'.reqs) = Cardinality({j \in 1..k : call'.ans[j] # NoAnswer})
       /\ \A j \in DOMAIN call'.ans : j > k => call'.ans[j] = NoAnswer
       /\ call'.writes = <<>>
       /\ db' = db]_vars

C15_Witness ==
  /\ call.op = "GetBloomBits"
  /\ call.ans[1].err = ErrRemote
  /\ call.err = ErrRemote
  /\ call.ret = NilBloomBits
  /\ Len(call.args[2]) = 2
  /\ ~LocalMiss(1)
  /\ LocalMiss(2)
  /\ Len(call.reqs) = 1

SingleCall ==
  GetBlockReceipts(scenario.start, scenario.key[1], scenario.key[2],
                   scenario.Receipts, scenario.Block)

AllDone == \A c \in CallerIds : callers[c].pc = "done"

\* C16: under every interleaving of the steps of two callers of
\* GetBlockReceipts for the same (hash, number), the store is at every moment
\* the one they started from or the one a single call leaves behind; when
\* both have returned, every caller whose remote fetches were answered has
\* returned what the single call returns (the same derived receipt set), and
\* the store is the one the single call leaves behind.
C16_ConcurrentEnrichment ==
  /\ db \in {scenario.start, SingleCall.db}
  /\ AllDone =>
       /\ \A c \in CallerIds :
            ~callers[c].failed =>
              (callers[c].ret = SingleCall.ret /\ callers[c].err = SingleCall.err)
       /\ (\E c \in CallerIds : ~callers[c].failed) => db = SingleCall.db

C16_Witness ==
  /\ AllDone
  /\ \A c \in CallerIds :
       /\ Len(callers[c].reqs) = 2
       /\ callers[c].err = NoErr
       /\ Len(callers[c].ret.list) = 2
       /\ callers[c].ret.list[1].TxHash # ZeroHash
       /\ callers[c].ret = SingleCall.ret
  /\ db # scenario.start

\* C18: on a closed MemoryDatabase every data access fails with an error and
\* changes nothing: Has, Get, Put and Delete return errMemorydbClosed, and
\* the Write of a batch returns an error, it neither succeeds nor panics.
C18_ClosedFails ==
  [][(mdb.nil /\ call'.op \in {"Has", "Get", "Put", "Delete", "BatchWrite"}) =>
       /\ mdb' = mdb
       /\ ~call'.panic
       /\ call'.err # NoErr
       /\ call'.op # "BatchWrite" => call'.err = errMemorydbClosed]_vars

\* The store a sequence of queued operations gives when each is applied to
\* the database directly, by Put or Delete
RECURSIVE ApplyDirectly(_, _)
ApplyDirectly(m, writes) ==
  IF writes = <<>>
  THEN m
  ELSE ApplyDirectly(IF Head(writes).delete
                     THEN Delete(m, Head(writes).key).db
                     ELSE Put(m, Head(writes).key, Head(writes).value).db,
                     Tail(writes))

\* C19: Put and Delete on a batch queue one operation each and leave the
\* database as it is; Write leaves the store the queued operations give when
\* applied directly, in the order they were queued; Reset empties the queue,
\* so that a later Write applies nothing queued before it.
C19_BatchBuffers ==
  [][/\ call'.op \in {"BatchPut", "BatchDelete"} =>
          /\ mdb' = mdb
          /\ Len(batch'.writes) = Len(batch.writes) + 1
          /\ SubSeq(batch'.writes, 1, Len(batch.writes)) = batch.writes
          /\ batch'.writes[Len(batch'.writes)] =
               IF call'.op = "BatchPut"
               THEN KeyValue(call'.args[1], call'.args[2], FALSE)
               ELSE KeyValue(call'.args[1], NilValue, TRUE)
     /\ call'.op = "BatchWrite" =>
          /\ mdb' = ApplyDirectly(mdb, batch.writes)
          /\ batch' = batch
     /\ call'.op = "BatchReset" =>
          /\ mdb' = mdb
          /\ batch'.writes = <<>>
          /\ ApplyDirectly(mdb, batch'.writes) = mdb]_vars

C19_Witness ==
  /\ call.op = "BatchWrite"
  /\ ~call.panic
  /\ Len(batch.writes) = 2
  /\ ~batch.writes[1].delete
  /\ batch.writes[2].delete
  /\ batch.writes[1].key = batch.writes[2].key
  /\ ~mdb.nil
  /\ batch.writes[1].key \notin DOMAIN mdb.entries
  /\ DOMAIN mdb.entries # {}

\* The reconciliation stops at count c: c is 0, or the section head recorded
\* for the first c sections is the canonical hash stored at their head
\* height, or no canonical hash is stored there
StopsAt(c) ==
  \/ c = 0
  \/ SectionHead(indexer, c - 1) = CanonicalAtHead(db, c)
  \/ CanonicalAtHead(db, c) = ZeroHash

\* C20: the reconciliation loop of GetBloomBits terminates: every iteration
\* makes the trusted count strictly smaller, the loop makes at most C
\* iterations for an indexer count C, and the call leaves the loop, at 0 or
\* at the first count from C downwards whose section head matches the stored
\* canonical hash or whose canonical hash is unknown.
C20_ReconcileTerminates ==
  /\ [][(call.pc = "for" /\ call'.pc = "for") =>
          (/\ call'.bloomTrieCount < call.bloomTrieCount
           /\ call'.iterations = call.iterations + 1)]_vars
  /\ [](call.pc = "for" =>
          /\ indexer.present
          /\ call.iterations + call.bloomTrieCount = indexer.count
          /\ \A c \in (call.bloomTrieCount + 1)..indexer.count : ~StopsAt(c))
  /\ [](call.pc = "scan" /\ indexer.present =>
          /\ call.iterations <= indexer.count
          /\ StopsAt(call.bloomTrieCount)
          /\ Trust(call.bloomTrieCount, call.sectionHeadNum, call.sectionHead)
               = Reconcile(db, indexer))
  /\ <>(call.pc = "scan")

C20_Witness ==
  /\ call.pc = "scan"
  /\ indexer.present
  /\ indexer.count = MaxSections
  /\ call.iterations = MaxSections - 1
  /\ call.bloomTrieCount = 1
  /\ SectionHead(indexer, 0) = CanonicalAtHead(db, 1)

(***************************************************************************)
(* C21                                                                     *)
(***************************************************************************)
\* C21: zero-hash leniency. The reconciliation of GetBloomBits never rolls
\* the trusted count back past a count whose section head height has no
\* canonical hash in the local store, whatever the indexer's head hash is;
\* in particular, if no canonical hash is stored at the head height of the
\* count the indexer reports, the reconciled count is the reported count and
\* the head is the one the indexer reported.
C21_ZeroHashLeniency ==
  (call.op = "GetBloomBits" /\ indexer.present) =>
    LET trust == call.local.trust IN
    /\ \A k \in 1..indexer.count :
         CanonicalAtHead(db, k) = ZeroHash => trust.bloomTrieCount >= k
    /\ CanonicalAtHead(db, indexer.count) = ZeroHash =>
         /\ trust.bloomTrieCount = indexer.count
         /\ trust.sectionHeadNum = Sections(indexer).headNum
         /\ trust.sectionHead = Sections(indexer).head

C21_Witness ==
  /\ call.op = "GetBloomBits"
  /\ indexer.present
  /\ indexer.count = MaxSections
  /\ CanonicalAtHead(db, indexer.count) = ZeroHash
  /\ indexer.heads[indexer.count - 1] # ZeroHash
  /\ call.local.trust.bloomTrieCount = MaxSections
  /\ Len(call.reqs) = 1

(***************************************************************************)
(* C22                                                                     *)
(***************************************************************************)
\* C22: a request built by GetBloomBits is bounded by the reconciled trust
\* boundary: with reconciled count C' it carries trie number C' - 1, the
\* bloom trie root looked up for (C' - 1, the indexer's section head at
\* index C' - 1), the caller's bit index and the locally missed sections.
C22_RequestAtReconciledBoundary ==
  call.op = "GetBloomBits" =>
    \A j \in DOMAIN call.reqs :
      LET count == call.local.trust.bloomTrieCount
          r == call.reqs[j]
      IN
      /\ r.BloomTrieNum = count - 1
      /\ r.BloomTrieRoot = GetBloomTrieRoot(db, count - 1, SectionHead(indexer, count - 1))
      /\ r.BitIdx = call.args[1]
      /\ r.SectionIndexList = MissedSections

\* A request sent after the boundary was rolled back
C22_Witness ==
  /\ call.op = "GetBloomBits"
  /\ StaleBoundary
  /\ call.local.trust.bloomTrieCount = indexer.count - 1
  /\ Len(call.reqs) = 1
  /\ call.reqs[1].BloomTrieNum = indexer.count - 2
  /\ call.reqs[1].BloomTrieRoot
       = GetBloomTrieRoot(db, indexer.count - 2, indexer.heads[indexer.count - 2])
  /\ indexer.heads[indexer.count - 2] # indexer.heads[indexer.count - 1]

(***************************************************************************)
(* C23                                                                     *)
(***************************************************************************)
\* C23: whenever GetBloomBits builds a request the reconciled trusted count
\* is at least 1, so the unsigned 'count - 1' of the request did not wrap
\* around; when the count is 0 (rolled back to zero, an indexer without
\* sections, or no indexer) no request is built and any local miss gives
\* ErrNoTrustedBloomTrie with no result.
C23_CountMinusOneNeverWraps ==
  call.op = "GetBloomBits" =>
    LET count == call.local.trust.bloomTrieCount IN
    /\ \A j \in DOMAIN call.reqs :
         /\ count >= 1
         /\ call.reqs[j].BloomTrieNum + 1 = count
    /\ count = 0 =>
         /\ call.reqs = <<>>
         /\ (\E i \in DOMAIN call.args[2] : LocalMiss(i)) =>
              (call.err = ErrNoTrustedBloomTrie /\ call.ret = NilBloomBits)
    /\ ~indexer.present => count = 0

\* A count rolled back to zero, and a local miss of section 0
C23_Witness ==
  /\ call.op = "GetBloomBits"
  /\ StaleBoundary
  /\ call.local.trust.bloomTrieCount = 0
  /\ call.args[2] = <<0>>
  /\ LocalMiss(1)
  /\ call.err = ErrNoTrustedBloomTrie
  /\ call.reqs = <<>>

(***************************************************************************)
(* C24                                                                     *)
(***************************************************************************)
\* C24: when the remote answers the status request without error and reports
\* the transaction as not included, GetTransaction returns no transaction and
\* no error, whatever the local store holds (it does not fail on a store
\* whose header lookup would fail), and the status request is the only
\* request it submits.
C24_NotIncludedPropagates ==
  (/\ call.op = "GetTransaction"
   /\ call.ans[1].err = NoErr
   /\ call.ans[1].Status # TxStatusIncluded)
  => (/\ ~call.panic
      /\ call.ret = NilTxRet
      /\ call.err = NoErr
      /\ call.reqs = <<TxStatusRequest(call.args[1])>>)

\* Not included, on a store where a header lookup at the zero locator would
\* find a canonical hash without its header
C24_Witness ==
  /\ call.op = "GetTransaction"
  /\ call.ans[1].err = NoErr
  /\ call.ans[1].Status = TxStatusUnknown
  /\ ReadCanonicalHash(db, 0) # ZeroHash
  /\ db.headers = {}
  /\ db.bodies # <<>>
  /\ call.ret = NilTxRet
  /\ call.err = NoErr
  /\ Len(call.reqs) = 1

(***************************************************************************)
(* C25                                                                     *)
(***************************************************************************)
\* C25: GetBlockReceipts changes the local store only when it derived the
\* linkage of the obtained set.  A set fetched from the remote that is empty,
\* or whose first receipt carries the linkage, is returned as sent and not
\* persisted: the store is unchanged, (hash, number) is still a local miss,
\* and the next call for (hash, number) submits a receipts request again.
C25_NoPersistWithoutDerivation ==
  [][call'.op = "GetBlockReceipts" =>
       LET hash == call'.args[1]
           number == call'.args[2]
           got == Obtained(db, hash, number, call'.ans[1])
           sent == call'.ans[1]
           later == GetBlockReceipts(db', hash, number, FailReceipts, FailBlock)
       IN
       /\ (db' # db \/ call'.writes # <<>>) =>
            (call'.err = NoErr /\ Len(got.list) > 0 /\ got.list[1].TxHash = ZeroHash)
       /\ (/\ <<hash, number>> \notin DOMAIN db.receipts
           /\ sent.err = NoErr
           /\ (Len(sent.Receipts.list) = 0 \/ sent.Receipts.list[1].TxHash # ZeroHash))
          => (/\ call'.err = NoErr
              /\ call'.ret = sent.Receipts
              /\ call'.writes = <<>>
              /\ db' = db
              /\ ~ReadRawReceipts(db', hash, number).present
              /\ Len(call'.reqs) = 1
              /\ later.reqs = call'.reqs
              /\ later.reqs[1].kind = "ReceiptsRequest")]_vars

\* A fetched set whose first receipt carries the linkage was returned and the
\* receipts of the block are still a local miss
C25_Witness ==
  /\ call.op = "GetBlockReceipts"
  /\ call.err = NoErr
  /\ Len(call.reqs) = 1
  /\ call.reqs[1].kind = "ReceiptsRequest"
  /\ Len(call.ret.list) = 2
  /\ call.ret.list[1].TxHash # ZeroHash
  /\ call.ret = call.ans[1].Receipts
  /\ call.writes = <<>>
  /\ ~ReadRawReceipts(db, call.args[1], call.args[2]).present

(***************************************************************************)
(* C26                                                                     *)
(***************************************************************************)
\* A memoryBatch.Write is in progress and has applied some but not all of
\* its queued entries.
WritePartial ==
  /\ writer.pc = "loop"
  /\ 1 < writer.i
  /\ writer.i <= Len(batch.writes)

\* C26: memoryBatch.Write is atomic for the other callers of the
\* MemoryDatabase: under every interleaving, no Get, Has, Put, Delete, Close
\* or iterator creation by another caller runs on a map to which only some
\* of the queued writes of a Write in progress have been applied.  (A step
\* that leaves the Write where it is, is a step of another caller.)
C26_BatchWriteAtomic ==
  [][(/\ writer' = writer
      /\ call'.op \in {"Get", "Has", "Put", "Delete", "Close", "NewIteratorWithPrefix"})
     => ~WritePartial]_vars

\* Another caller was held off while the Write was halfway, and read the
\* map after the whole queue was applied
C26_Witness ==
  /\ writer.pc = "done"
  /\ Len(batch.writes) = MaxBatch
  /\ \A i \in DOMAIN batch.writes : ~batch.writes[i].delete
  /\ batch.writes[1].key # batch.writes[MaxBatch].key
  /\ call.op = "Get"
  /\ call.args[1] = batch.writes[MaxBatch].key
  /\ call.ret = batch.writes[MaxBatch].value
  /\ ~mdb.nil
  /\ mdb.entries[batch.writes[1].key] = batch.writes[1].value

(***************************************************************************)
(* C27                                                                     *)
(***************************************************************************)
\* Key a comes before key b in binary-alphabetical order: at the first
\* position where they differ a has the smaller byte, or a is a proper
\* prefix of b.
Before(a, b) ==
  \E n \in 0..Len(a) :
    /\ n <= Len(b)
    /\ SubSeq(a, 1, n) = SubSeq(b, 1, n)
    /\ \/ n = Len(a) /\ n < Len(b)
       \/ n < Len(a) /\ n < Len(b) /\ a[n + 1] < b[n + 1]

\* The keys that had the prefix when the iterator was created
KeysAtCreation ==
  {key \in DOMAIN scenario.entries :
     /\ Len(scenario.prefix) <= Len(key)
     /\ \A p \in DOMAIN scenario.prefix : key[p] = scenario.prefix[p]}

====
